---- MODULE Spec2Model ----
(***************************************************************************)
(* A model of the metric registry of metrics_hub (src/metrics_hub/core.py): *)
(* discovery of configuration files and implementation files by the        *)
(* MetricRegistry constructor, the registry's lookups and call_metric, and  *)
(* the process-wide accessor get_registry.                                  *)
(*                                                                          *)
(* Python values are modelled as follows.                                   *)
(*   - a dict whose order is not observable (kwargs, one input spec, one    *)
(*     configuration, _functions) is a function with a string domain; a key *)
(*     is present exactly when it is in the DOMAIN;                         *)
(*   - self.metrics, whose order list_all() exposes, is a sequence of       *)
(*     [key, value] pairs in insertion order;                               *)
(*   - None where a dict or a callable is expected is PyNone.               *)
(***************************************************************************)
EXTENDS Integers, Sequences, FiniteSets, TLC

VARIABLES
    pc,              \* position of MetricRegistry.__init__ : "configs", "functions",
                     \* "ready" once it has returned, "raised" if an exception left it
    root_importable, \* whether importlib.import_module(self.metrics_module) succeeds
    yaml_files,      \* the *.yaml files the glob has yielded so far, in discovery order
    py_files,        \* the *.py files the glob has yielded so far, in discovery order
    metrics,         \* self.metrics
    functions,       \* self._functions
    log,             \* records emitted on the module's logger, in order
    last,            \* the registry operation called last, what it invoked and its outcome
    registry_ref,    \* the module global _registry: NoRegistry or a reference
    instances,       \* the MetricRegistry objects created so far; a reference is a position
    threads,         \* each thread's position in get_registry() and its local values
    accesses,        \* the accesses made through the module-level functions, in order
    sources,         \* DataTreatment._sources, in insertion order
    transformers,    \* DataTreatment._transformers: the chains that exist, by name
    target_file,     \* the implementation file of a metric on disk, if it exists
    connections      \* the database connections opened so far and whether each is open

accessor_vars == <<registry_ref, instances, threads, accesses>>

treatment_vars == <<sources, transformers>>

io_vars == <<target_file, connections>>

vars == <<pc, root_importable, yaml_files, py_files, metrics, functions, log, last,
          registry_ref, instances, threads, accesses, sources, transformers,
          target_file, connections>>

-----------------------------------------------------------------------------
(* Bounds and the small sets the inputs are drawn from. *)

MaxInputs == 2      \* declared inputs, per configuration and per discovery root
MaxYamlFiles == 2   \* configuration files under a discovery root
MaxPyFiles == 2     \* implementation files under a discovery root
MaxThreads == 2     \* threads that call get_registry() concurrently
MaxAccesses == 3    \* accesses through the module-level functions, one after another

Ids == {"m1", "m2"}
ParamNames == {"p", "q"}
DefaultVals == {"None", "5"}
CallerVals == {"None", "9"}
FalsyVals == {"None"}

PyNone == [none |-> TRUE]
EmptyDict == [k \in {} |-> TRUE]

Put(d, k, v) == [x \in (DOMAIN d) \cup {k} |-> IF x = k THEN v ELSE d[x]]

Truthy(d) == d # PyNone /\ DOMAIN d # {}

-----------------------------------------------------------------------------
(* self.metrics as an insertion-ordered dict. *)

DictKeys(d) == {d[i].key : i \in DOMAIN d}

DictGet(d, k) ==
    IF k \in DictKeys(d)
    THEN d[CHOOSE i \in DOMAIN d : d[i].key = k].value
    ELSE PyNone

DictValues(d) == [i \in DOMAIN d |-> d[i].value]

\* d[k] = v on a Python dict: an existing key keeps its position.
DictSet(d, k, v) ==
    IF k \in DictKeys(d)
    THEN [i \in DOMAIN d |-> IF d[i].key = k THEN [key |-> k, value |-> v] ELSE d[i]]
    ELSE Append(d, [key |-> k, value |-> v])

-----------------------------------------------------------------------------
(* Configuration documents. *)

InputSpecs ==
    {[name |-> n] : n \in ParamNames}
        \cup {[name |-> n, default |-> v] : n \in ParamNames, v \in DefaultVals}

DistinctNames(s) == \A i, j \in DOMAIN s : i # j => s[i].name # s[j].name

InputSeqs ==
    UNION {{s \in [1..n -> InputSpecs] : DistinctNames(s)} : n \in 0..MaxInputs}

\* Configurations that differ in their declared inputs (the `inputs` key is optional).
Configs ==
    {[id |-> i] : i \in Ids} \cup {[id |-> i, inputs |-> s] : i \in Ids, s \in InputSeqs}

\* Configurations that differ in their other keys (`name` stands for name,
\* description, category, ...; every key but `id` is optional).
NamedConfigs ==
    {[id |-> i] : i \in Ids} \cup {[id |-> i, name |-> "A"] : i \in Ids}

\* A *.yaml file is what yaml.safe_load makes of it: it raises, or it returns the
\* document: None for an empty file, else a mapping, with or without an `id`.
ParseError == [parse |-> "error"]
Parsed(doc) == [parse |-> "ok", doc |-> doc]
NoIdDoc == [name |-> "A"]

BadYamlFiles == {ParseError, Parsed(PyNone), Parsed(NoIdDoc)}
YamlFiles == BadYamlFiles \cup {Parsed(c) : c \in NamedConfigs}

WellFormed(file) == file.parse = "ok" /\ Truthy(file.doc) /\ "id" \in DOMAIN file.doc

-----------------------------------------------------------------------------
(* Implementation files. *)

\* A file name without its extension, as a sequence of characters and words.
NormalName == <<"calc">>
PrivateName == <<"_", "helper">>
DunderName == <<"_", "_", "init">>
FileNames == {NormalName, PrivateName, DunderName}

\* str.startswith
StartsWith(name, prefix) ==
    Len(name) >= Len(prefix) /\ SubSeq(name, 1, Len(prefix)) = prefix

\* The members inspect.getmembers(module, inspect.isfunction) returns for a
\* module: a function carries the attribute __metric_id__ or does not.
MemberSeqs ==
    {<<[name |-> "fa"]>>} \cup {<<[name |-> "fa", metric_id |-> i]>> : i \in Ids}

\* A *.py file: its name, whether importing it raises, and, when it does not,
\* the function members of the module object.
PyFiles ==
    {[name |-> n, import_raises |-> TRUE, members |-> <<>>] : n \in FileNames}
        \cup {[name |-> n, import_raises |-> FALSE, members |-> m] :
                 n \in FileNames, m \in MemberSeqs}

\* The function object named fname of the module imported from the k-th file.
FunctionObject(k, fname) == [module |-> k, name |-> fname]

-----------------------------------------------------------------------------
(* Log records. *)

LogRecord(level, what, k) == [level |-> level, what |-> what, file |-> k]

-----------------------------------------------------------------------------
(* MetricRegistry._load_configurations. A loader's result carries `raised`:   *)
(* whether an exception left the loop body, and with it the constructor.     *)

\* A variant of LoadConfigFile that merges a configuration into the one already
\* stored under its id (dict.update) instead of replacing it.
LoadConfigFileMerging(ms, lg, file, k) ==
    IF file.parse = "error"
    THEN [metrics |-> ms, raised |-> FALSE,
          log |-> Append(lg, LogRecord("error", "Failed to load", k))]
    ELSE LET config == file.doc IN
         IF Truthy(config) /\ "id" \in DOMAIN config
         THEN LET old == DictGet(ms, config.id)
                  merged == IF old = PyNone
                            THEN config
                            ELSE [x \in (DOMAIN old) \cup (DOMAIN config) |->
                                    IF x \in DOMAIN config THEN config[x] ELSE old[x]]
              IN [metrics |-> DictSet(ms, config.id, merged), raised |-> FALSE,
                  log |-> Append(lg, LogRecord("debug", "Loaded metric config", k))]
         ELSE [metrics |-> ms, raised |-> FALSE, log |-> lg]

\* A variant of LoadConfigFile that rebinds self.metrics to a dict of the one
\* configuration just read.
LoadConfigFileRebinding(ms, lg, file, k) ==
    IF file.parse = "error"
    THEN [metrics |-> ms, raised |-> FALSE,
          log |-> Append(lg, LogRecord("error", "Failed to load", k))]
    ELSE LET config == file.doc IN
         IF Truthy(config) /\ "id" \in DOMAIN config
         THEN [metrics |-> <<[key |-> config.id, value |-> config]>>, raised |-> FALSE,
               log |-> Append(lg, LogRecord("debug", "Loaded metric config", k))]
         ELSE [metrics |-> ms, raised |-> FALSE, log |-> lg]

\* The body of the loop for the k-th file: the try block and its handler.
LoadConfigFile(ms, lg, file, k) ==
    IF file.parse = "error"
    THEN [metrics |-> ms, raised |-> FALSE,
          log |-> Append(lg, LogRecord("error", "Failed to load", k))]
    ELSE LET config == file.doc IN
         IF Truthy(config) /\ "id" \in DOMAIN config
         THEN [metrics |-> DictSet(ms, config.id, config), raised |-> FALSE,
               log |-> Append(lg, LogRecord("debug", "Loaded metric config", k))]
         ELSE [metrics |-> ms, raised |-> FALSE, log |-> lg]

\* The except ImportError branch of both loaders.
ModuleNotFound(lg) == Append(lg, LogRecord("warning", "Metrics module not found", 0))

RECURSIVE LoadConfigLoop(_, _, _, _)
LoadConfigLoop(ms, lg, files, k) ==
    IF k > Len(files)
    THEN [metrics |-> ms, raised |-> FALSE, log |-> lg]
    ELSE LET r == LoadConfigFile(ms, lg, files[k], k)
         IN IF r.raised THEN r ELSE LoadConfigLoop(r.metrics, r.log, files, k + 1)

\* The whole of _load_configurations.
LoadConfigurations(importable, ms, lg, files) ==
    IF importable
    THEN LoadConfigLoop(ms, lg, files, 1)
    ELSE [metrics |-> ms, raised |-> FALSE, log |-> ModuleNotFound(lg)]

-----------------------------------------------------------------------------
(* MetricRegistry._load_functions. *)

\* The loop over the members of one imported module.
RECURSIVE BindMembers(_, _, _, _, _)
BindMembers(fs, lg, members, k, j) ==
    IF j > Len(members)
    THEN [functions |-> fs, raised |-> FALSE, log |-> lg]
    ELSE LET obj == members[j] IN
         IF "metric_id" \in DOMAIN obj
         THEN BindMembers(Put(fs, obj.metric_id, FunctionObject(k, obj.name)),
                          Append(lg, LogRecord("debug", "Loaded metric function", k)),
                          members, k, j + 1)
         ELSE BindMembers(fs, lg, members, k, j + 1)

\* A variant of LoadFunctionFile without the try block around the import: what
\* the import raises leaves the loop.
LoadFunctionFileUnguarded(fs, lg, file, k) ==
    IF StartsWith(file.name, <<"_", "_">>)
    THEN [functions |-> fs, raised |-> FALSE, log |-> lg]
    ELSE IF file.import_raises
         THEN [functions |-> fs, raised |-> TRUE, log |-> lg]
         ELSE BindMembers(fs, lg, file.members, k, 1)

\* The body of the loop for the k-th file: the name test, then the try block and
\* its handler.
LoadFunctionFile(fs, lg, file, k) ==
    IF StartsWith(file.name, <<"_", "_">>)
    THEN [functions |-> fs, raised |-> FALSE, log |-> lg]
    ELSE IF file.import_raises
         THEN [functions |-> fs, raised |-> FALSE,
               log |-> Append(lg, LogRecord("error", "Failed to import", k))]
         ELSE BindMembers(fs, lg, file.members, k, 1)

RECURSIVE LoadFunctionLoop(_, _, _, _)
LoadFunctionLoop(fs, lg, files, k) ==
    IF k > Len(files)
    THEN [functions |-> fs, raised |-> FALSE, log |-> lg]
    ELSE LET r == LoadFunctionFile(fs, lg, files[k], k)
         IN IF r.raised THEN r ELSE LoadFunctionLoop(r.functions, r.log, files, k + 1)

\* The whole of _load_functions.
LoadFunctions(importable, fs, lg, files) ==
    IF importable
    THEN LoadFunctionLoop(fs, lg, files, 1)
    ELSE [functions |-> fs, raised |-> FALSE, log |-> ModuleNotFound(lg)]

-----------------------------------------------------------------------------
(* The registry's lookups. *)

get_function(fs, metric_id) == IF metric_id \in DOMAIN fs THEN fs[metric_id] ELSE PyNone

get_config(ms, metric_id) == DictGet(ms, metric_id)

list_all(ms) == DictValues(ms)

-----------------------------------------------------------------------------
(* MetricRegistry.call_metric. *)

Return(v) == [kind |-> "return", value |-> v]
Raise(type, msg) == [kind |-> "raise", type |-> type, msg |-> msg]

\* A variant of ApplyDefaults that tests the default's truthiness
\* (input_param.get('default')) instead of the presence of the key.
RECURSIVE ApplyDefaultsTruthy(_, _)
ApplyDefaultsTruthy(inputs, kwargs) ==
    IF inputs = <<>>
    THEN kwargs
    ELSE LET input_param == Head(inputs)
             param_name == input_param.name
         IN IF /\ param_name \notin DOMAIN kwargs
               /\ "default" \in DOMAIN input_param
               /\ input_param.default \notin FalsyVals
            THEN ApplyDefaultsTruthy(Tail(inputs),
                                     Put(kwargs, param_name, input_param.default))
            ELSE ApplyDefaultsTruthy(Tail(inputs), kwargs)

\* The loop that applies the defaults of the declared inputs to kwargs.
RECURSIVE ApplyDefaults(_, _)
ApplyDefaults(inputs, kwargs) ==
    IF inputs = <<>>
    THEN kwargs
    ELSE LET input_param == Head(inputs)
             param_name == input_param.name
         IN IF param_name \notin DOMAIN kwargs /\ "default" \in DOMAIN input_param
            THEN ApplyDefaults(Tail(inputs), Put(kwargs, param_name, input_param.default))
            ELSE ApplyDefaults(Tail(inputs), kwargs)

\* config.get('inputs', [])
ConfigInputs(config) == IF "inputs" \in DOMAIN config THEN config.inputs ELSE <<>>

\* The keyword arguments call_metric passes on.
MergedKwargs(config, kwargs) ==
    IF Truthy(config) THEN ApplyDefaults(ConfigInputs(config), kwargs) ELSE kwargs

\* A variant of call_metric that subscripts self._functions (a KeyError for an
\* unbound id) instead of testing what get_function returns.
call_metric_subscript(ms, fs, metric_id, kwargs, outcome) ==
    IF metric_id \notin DOMAIN fs
    THEN [invoked |-> <<>>, result |-> Raise("KeyError", metric_id)]
    ELSE [invoked |-> <<[func |-> fs[metric_id],
                         kwargs |-> MergedKwargs(get_config(ms, metric_id), kwargs),
                         outcome |-> outcome]>>,
          result |-> outcome]

\* A variant of call_metric that catches what the callable raises and re-raises
\* it as a RuntimeError carrying the message.
call_metric_wrapping(ms, fs, metric_id, kwargs, outcome) ==
    LET func == get_function(fs, metric_id) IN
    IF func = PyNone
    THEN [invoked |-> <<>>, result |-> Raise("ValueError", "Metric function not found")]
    ELSE [invoked |-> <<[func |-> func,
                         kwargs |-> MergedKwargs(get_config(ms, metric_id), kwargs),
                         outcome |-> outcome]>>,
          result |-> IF outcome.kind = "raise"
                     THEN Raise("RuntimeError", outcome.msg)
                     ELSE outcome]

\* A variant of call_metric that refuses an id without a configuration.
call_metric_needs_config(ms, fs, metric_id, kwargs, outcome) ==
    LET func == get_function(fs, metric_id)
        config == get_config(ms, metric_id)
    IN IF func = PyNone \/ config = PyNone
       THEN [invoked |-> <<>>, result |-> Raise("ValueError", "Metric function not found")]
       ELSE [invoked |-> <<[func |-> func,
                            kwargs |-> MergedKwargs(config, kwargs),
                            outcome |-> outcome]>>,
             result |-> outcome]

\* call_metric(metric_id, **kwargs), where `outcome` is what the bound callable
\* does when it is invoked: it returns a value or raises. The result names the
\* invocations made, in order, and what reaches the caller.
call_metric(ms, fs, metric_id, kwargs, outcome) ==
    LET func == get_function(fs, metric_id) IN
    IF func = PyNone
    THEN [invoked |-> <<>>, result |-> Raise("ValueError", "Metric function not found")]
    ELSE LET config == get_config(ms, metric_id)
         IN [invoked |-> <<[func |-> func,
                            kwargs |-> MergedKwargs(config, kwargs),
                            outcome |-> outcome]>>,
             result |-> outcome]

\* A variant of call_metric_stores that writes the value the caller passed for a
\* declared input into the stored input spec (input_param['default'] = ...).
call_metric_stores_into_config(ms, fs, metric_id, kwargs) ==
    LET config == get_config(ms, metric_id)
        store(inputs) ==
            [i \in DOMAIN inputs |->
                IF inputs[i].name \in DOMAIN kwargs
                THEN Put(inputs[i], "default", kwargs[inputs[i].name])
                ELSE inputs[i]]
    IN IF /\ get_function(fs, metric_id) # PyNone
          /\ Truthy(config)
          /\ "inputs" \in DOMAIN config
       THEN [metrics |-> DictSet(ms, metric_id,
                                 Put(config, "inputs", store(config.inputs))),
             functions |-> fs]
       ELSE [metrics |-> ms, functions |-> fs]

\* self.metrics and self._functions when call_metric ends, returning or raising:
\* its only assignments are to kwargs, the dict of the call, and the lookups it
\* makes are dict.get.
call_metric_stores(ms, fs, metric_id, kwargs) ==
    [metrics |-> ms, functions |-> fs]

-----------------------------------------------------------------------------
(* Discovery: MetricRegistry.__init__ and load_metrics, one step per file the *)
(* two globs yield. The content of a file is an input of the step that reads  *)
(* it.                                                                        *)

NoOp == [op |-> "none"]

\* _registry = None: the module as imported, before any access.
NoRegistry == 0
Threads == 1..MaxThreads
Idle == [pc |-> "idle", obj |-> NoRegistry, ret |-> NoRegistry]

NoAccessor ==
    /\ registry_ref = NoRegistry
    /\ instances = <<>>
    /\ threads = [t \in Threads |-> Idle]
    /\ accesses = <<>>

\* No file has been generated and no connection opened.
NoFile == [exists |-> FALSE, text |-> <<>>, region |-> <<>>]
NoIo ==
    /\ target_file = NoFile
    /\ connections = <<>>

\* No DataTreatment has been constructed.
NoTreatment ==
    /\ sources = <<>>
    /\ transformers = EmptyDict

InitDiscovery ==
    /\ pc = "configs"
    /\ root_importable \in BOOLEAN
    /\ yaml_files = <<>>
    /\ py_files = <<>>
    /\ metrics = <<>>
    /\ functions = EmptyDict
    /\ log = <<>>
    /\ last = NoOp
    /\ NoAccessor
    /\ NoIo
    /\ NoTreatment

\* _load_configurations when importing the metrics module raises ImportError.
ConfigsModuleNotFound ==
    /\ pc = "configs"
    /\ ~root_importable
    /\ log' = LoadConfigurations(FALSE, metrics, log, <<>>).log
    /\ pc' = "functions"
    /\ UNCHANGED treatment_vars
    /\ UNCHANGED <<root_importable, yaml_files, py_files, metrics, functions, last>>
    /\ UNCHANGED accessor_vars
    /\ UNCHANGED io_vars

\* One iteration of the loop of _load_configurations.
DiscoverConfigFile ==
    /\ pc = "configs"
    /\ root_importable
    /\ Len(yaml_files) < MaxYamlFiles
    /\ \E file \in YamlFiles :
          LET r == LoadConfigFile(metrics, log, file, Len(yaml_files) + 1) IN
          /\ yaml_files' = Append(yaml_files, file)
          /\ metrics' = r.metrics
          /\ log' = r.log
          /\ pc' = IF r.raised THEN "raised" ELSE pc
    /\ UNCHANGED treatment_vars
    /\ UNCHANGED <<root_importable, py_files, functions, last>>
    /\ UNCHANGED accessor_vars
    /\ UNCHANGED io_vars

\* The glob of _load_configurations is exhausted: load_metrics goes on.
ConfigsDone ==
    /\ pc = "configs"
    /\ root_importable
    /\ pc' = "functions"
    /\ UNCHANGED treatment_vars
    /\ UNCHANGED <<root_importable, yaml_files, py_files, metrics, functions, log, last>>
    /\ UNCHANGED accessor_vars
    /\ UNCHANGED io_vars

\* _load_functions when importing the metrics module raises ImportError.
FunctionsModuleNotFound ==
    /\ pc = "functions"
    /\ ~root_importable
    /\ log' = LoadFunctions(FALSE, functions, log, <<>>).log
    /\ pc' = "ready"
    /\ UNCHANGED treatment_vars
    /\ UNCHANGED <<root_importable, yaml_files, py_files, metrics, functions, last>>
    /\ UNCHANGED accessor_vars
    /\ UNCHANGED io_vars

\* One iteration of the loop of _load_functions.
DiscoverFunctionFile ==
    /\ pc = "functions"
    /\ root_importable
    /\ Len(py_files) < MaxPyFiles
    /\ \E file \in PyFiles :
          LET r == LoadFunctionFile(functions, log, file, Len(py_files) + 1) IN
          /\ py_files' = Append(py_files, file)
          /\ functions' = r.functions
          /\ log' = r.log
          /\ pc' = IF r.raised THEN "raised" ELSE pc
    /\ UNCHANGED treatment_vars
    /\ UNCHANGED <<root_importable, yaml_files, metrics, last>>
    /\ UNCHANGED accessor_vars
    /\ UNCHANGED io_vars

\* The glob of _load_functions is exhausted: the constructor returns.
FunctionsDone ==
    /\ pc = "functions"
    /\ root_importable
    /\ pc' = "ready"
    /\ UNCHANGED treatment_vars
    /\ UNCHANGED <<root_importable, yaml_files, py_files, metrics, functions, log, last>>
    /\ UNCHANGED accessor_vars
    /\ UNCHANGED io_vars

NextDiscovery ==
    \/ ConfigsModuleNotFound
    \/ DiscoverConfigFile
    \/ ConfigsDone
    \/ FunctionsModuleNotFound
    \/ DiscoverFunctionFile
    \/ FunctionsDone

SpecDiscovery == InitDiscovery /\ [][NextDiscovery]_vars

-----------------------------------------------------------------------------
(* The operations of a constructed registry. Init is the registry the         *)
(* constructor leaves over a discovery root that holds, for each metric, at   *)
(* most one configuration file and at most one implementation file.           *)

DistinctIds(files) ==
    \A i, j \in DOMAIN files : i # j => files[i].doc.id # files[j].doc.id

RECURSIVE DeclaredInputs(_)
DeclaredInputs(files) ==
    IF files = <<>>
    THEN 0
    ELSE Len(ConfigInputs(Head(files).doc)) + DeclaredInputs(Tail(files))

YamlRoots ==
    UNION {{files \in [1..n -> {Parsed(c) : c \in Configs}] :
              DistinctIds(files) /\ DeclaredInputs(files) <= MaxInputs} :
             n \in 0..Cardinality(Ids)}

DistinctBindings(files) ==
    \A i, j \in DOMAIN files :
        i # j => files[i].members[1].metric_id # files[j].members[1].metric_id

PyRoots ==
    UNION {{files \in [1..n -> {[name |-> NormalName, import_raises |-> FALSE,
                                  members |-> <<[name |-> "fa", metric_id |-> i]>>] :
                                    i \in Ids}] : DistinctBindings(files)} :
             n \in 0..Cardinality(Ids)}

\* The whole constructor over a root: __init__ and load_metrics.
Construct(importable, yamls, pys) ==
    LET c == LoadConfigurations(importable, <<>>, <<>>, yamls)
        f == IF c.raised
             THEN [functions |-> EmptyDict, raised |-> TRUE, log |-> c.log]
             ELSE LoadFunctions(importable, EmptyDict, c.log, pys)
    IN [metrics |-> c.metrics, functions |-> f.functions, log |-> f.log,
        raised |-> f.raised]

Init ==
    /\ root_importable = TRUE
    /\ yaml_files \in YamlRoots
    /\ py_files \in PyRoots
    /\ pc = IF Construct(root_importable, yaml_files, py_files).raised
            THEN "raised"
            ELSE "ready"
    /\ metrics = Construct(root_importable, yaml_files, py_files).metrics
    /\ functions = Construct(root_importable, yaml_files, py_files).functions
    /\ log = Construct(root_importable, yaml_files, py_files).log
    /\ last = NoOp
    /\ NoAccessor
    /\ NoIo
    /\ NoTreatment

\* The keyword arguments a caller passes.
Kwargs == UNION {[S -> CallerVals] : S \in SUBSET ParamNames}

\* What a bound callable does when invoked.
Outcomes == {Return("42"), Raise("ValueError", "bad input")}

CallMetric ==
    /\ pc = "ready"
    /\ \E metric_id \in Ids, kwargs \in Kwargs, outcome \in Outcomes :
          LET r == call_metric(metrics, functions, metric_id, kwargs, outcome)
              after == call_metric_stores(metrics, functions, metric_id, kwargs)
          IN /\ last' = [op |-> "call_metric", metric_id |-> metric_id,
                         kwargs |-> kwargs, invoked |-> r.invoked, result |-> r.result]
             /\ metrics' = after.metrics
             /\ functions' = after.functions
    /\ UNCHANGED treatment_vars
    /\ UNCHANGED <<pc, root_importable, yaml_files, py_files, log>>
    /\ UNCHANGED accessor_vars
    /\ UNCHANGED io_vars

GetFunction ==
    /\ pc = "ready"
    /\ \E metric_id \in Ids :
          last' = [op |-> "get_function", metric_id |-> metric_id,
                   result |-> Return(get_function(functions, metric_id))]
    /\ UNCHANGED treatment_vars
    /\ UNCHANGED <<pc, root_importable, yaml_files, py_files, metrics, functions, log>>
    /\ UNCHANGED accessor_vars
    /\ UNCHANGED io_vars

GetConfig ==
    /\ pc = "ready"
    /\ \E metric_id \in Ids :
          last' = [op |-> "get_config", metric_id |-> metric_id,
                   result |-> Return(get_config(metrics, metric_id))]
    /\ UNCHANGED treatment_vars
    /\ UNCHANGED <<pc, root_importable, yaml_files, py_files, metrics, functions, log>>
    /\ UNCHANGED accessor_vars
    /\ UNCHANGED io_vars

ListAll ==
    /\ pc = "ready"
    /\ last' = [op |-> "list_all", result |-> Return(list_all(metrics))]
    /\ UNCHANGED treatment_vars
    /\ UNCHANGED <<pc, root_importable, yaml_files, py_files, metrics, functions, log>>
    /\ UNCHANGED accessor_vars
    /\ UNCHANGED io_vars

Next == CallMetric \/ GetFunction \/ GetConfig \/ ListAll

Spec == Init /\ [][Next]_vars

-----------------------------------------------------------------------------
(* Properties of call_metric and of the lookups, checked under Spec. *)

Called == last.op = "call_metric"

\* The configuration a file under the root declares for metric_id, if any.
Declares(metric_id) == {k \in DOMAIN yaml_files : yaml_files[k].doc.id = metric_id}
DeclaredConfig(metric_id) == yaml_files[CHOOSE k \in Declares(metric_id) : TRUE].doc

\* C1: call_metric on an id with no bound callable raises the registry's
\* ValueError ("metric not found") and nothing else, and invokes no callable,
\* whatever the kwargs and whether or not a configuration is loaded for the id.
C1_UnboundRaisesValueError ==
    (Called /\ last.metric_id \notin DOMAIN functions)
        => /\ last.result = Raise("ValueError", "Metric function not found")
           /\ last.invoked = <<>>

C1_Witness ==
    /\ Called
    /\ last.metric_id \notin DOMAIN functions
    /\ Declares(last.metric_id) # {}
    /\ DOMAIN last.kwargs # {}
    /\ last.result.kind = "raise"

\* What the claim says the callable receives: the caller's kwargs plus name=default
\* for each declared input that has a `default` key and whose name the caller did
\* not pass.
Defaulted(inputs, kwargs) ==
    {i \in DOMAIN inputs : "default" \in DOMAIN inputs[i] /\ inputs[i].name \notin DOMAIN kwargs}

ExpectedKwargs(inputs, kwargs) ==
    [n \in (DOMAIN kwargs) \cup {inputs[i].name : i \in Defaulted(inputs, kwargs)} |->
        IF n \in DOMAIN kwargs
        THEN kwargs[n]
        ELSE inputs[CHOOSE i \in Defaulted(inputs, kwargs) : inputs[i].name = n].default]

\* C2: on an id with a bound callable and a loaded configuration, the callable
\* receives exactly the caller's kwargs plus the default of every declared input
\* that has a `default` key (an explicit None included) and was not passed; a
\* passed value (a passed None included) is never replaced, and an input without
\* a `default` key is not added.
C2_DefaultsByPresence ==
    (Called /\ last.metric_id \in DOMAIN functions /\ Declares(last.metric_id) # {})
        => /\ Len(last.invoked) = 1
           /\ last.invoked[1].kwargs =
                  ExpectedKwargs(ConfigInputs(DeclaredConfig(last.metric_id)), last.kwargs)

\* A call in which an explicit None default was injected, a passed None was kept
\* over a declared default, and nothing else was added.
C2_Witness ==
    /\ Called
    /\ last.metric_id \in DOMAIN functions
    /\ Declares(last.metric_id) # {}
    /\ ConfigInputs(DeclaredConfig(last.metric_id))
          = <<[name |-> "p", default |-> "None"], [name |-> "q", default |-> "5"]>>
    /\ last.kwargs = [n \in {"q"} |-> "None"]
    /\ last.invoked[1].kwargs = [n \in {"p", "q"} |-> "None"]

\* C3: a call_metric on a bound id invokes the bound callable exactly once, and
\* what reaches the caller is what that invocation did: the value it returned,
\* or the error it raised with its kind and message.
C3_InvokedOnceOutcomeUnchanged ==
    (Called /\ last.metric_id \in DOMAIN functions)
        => /\ Len(last.invoked) = 1
           /\ last.invoked[1].func = functions[last.metric_id]
           /\ last.result = last.invoked[1].outcome

C3_Witness ==
    /\ Called
    /\ last.metric_id \in DOMAIN functions
    /\ Len(last.invoked) = 1
    /\ last.invoked[1].outcome = Raise("ValueError", "bad input")
    /\ last.result = Raise("ValueError", "bad input")

\* An id that has a bound callable and no configuration.
BoundWithoutConfig(metric_id) ==
    metric_id \in DOMAIN functions /\ Declares(metric_id) = {}

\* C8: for an id with a bound callable and no configuration, list_all() has no
\* entry for it, get_config returns None, get_function returns the callable, and
\* call_metric invokes the callable with exactly the caller's kwargs.
C8_BindingWithoutConfig ==
    /\ last.op = "list_all"
          => \A metric_id \in Ids :
                BoundWithoutConfig(metric_id)
                    => \A i \in DOMAIN last.result.value :
                          last.result.value[i].id # metric_id
    /\ (last.op = "get_config" /\ BoundWithoutConfig(last.metric_id))
          => last.result = Return(PyNone)
    /\ (last.op = "get_function" /\ BoundWithoutConfig(last.metric_id))
          => /\ last.result.value # PyNone
             /\ last.result.value = functions[last.metric_id]
    /\ (Called /\ BoundWithoutConfig(last.metric_id))
          => /\ Len(last.invoked) = 1
             /\ last.invoked[1].func = functions[last.metric_id]
             /\ last.invoked[1].kwargs = last.kwargs

C8_Witness ==
    /\ Called
    /\ BoundWithoutConfig(last.metric_id)
    /\ yaml_files # <<>>
    /\ last.kwargs = [n \in {"p"} |-> "9"]
    /\ Len(last.invoked) = 1
    /\ last.result = Return("42")

-----------------------------------------------------------------------------
(* Properties of discovery, checked under SpecDiscovery. They are stated over *)
(* the files discovered so far, so they hold at every point of discovery and  *)
(* in particular once the constructor has returned.                           *)

\* The positions of the discovered configuration files that declare metric_id.
Declaring(metric_id) ==
    {k \in DOMAIN yaml_files :
        WellFormed(yaml_files[k]) /\ yaml_files[k].doc.id = metric_id}

Latest(S) == CHOOSE k \in S : \A j \in S : j <= k

Entries(metric_id) ==
    {i \in DOMAIN list_all(metrics) : list_all(metrics)[i].id = metric_id}

\* C4: when two or more discovered configuration files declare the same id,
\* discovery does not raise, get_config(id) is the whole configuration of the
\* later-discovered file (not a key-wise merge), and list_all() has exactly one
\* entry with that id.
C4_LastConfigurationWins ==
    \A metric_id \in Ids :
        Cardinality(Declaring(metric_id)) >= 2
            => /\ pc # "raised"
               /\ get_config(metrics, metric_id) = yaml_files[Latest(Declaring(metric_id))].doc
               /\ Cardinality(Entries(metric_id)) = 1

\* The earlier file has a key the later one lacks: a merge would keep it.
C4_Witness ==
    /\ pc = "ready"
    /\ yaml_files = <<Parsed([id |-> "m1", name |-> "A"]), Parsed([id |-> "m1"])>>
    /\ get_config(metrics, "m1") = [id |-> "m1"]
    /\ Len(list_all(metrics)) = 1

WellFormedFiles == {k \in DOMAIN yaml_files : WellFormed(yaml_files[k])}

PairwiseDistinctIds ==
    \A j, k \in WellFormedFiles : j # k => yaml_files[j].doc.id # yaml_files[k].doc.id

\* C5: after discovery of configuration files with pairwise distinct ids,
\* list_all() has exactly one entry per loaded id and no other entry,
\* get_config(id) is that entry, and get_config of an id not loaded is None.
C5_OneEntryPerId ==
    PairwiseDistinctIds
        => /\ Len(list_all(metrics)) = Cardinality(WellFormedFiles)
           /\ \A k \in WellFormedFiles :
                 /\ Cardinality(Entries(yaml_files[k].doc.id)) = 1
                 /\ \A i \in Entries(yaml_files[k].doc.id) :
                       /\ list_all(metrics)[i] = yaml_files[k].doc
                       /\ get_config(metrics, yaml_files[k].doc.id) = list_all(metrics)[i]
           /\ \A metric_id \in Ids :
                 Declaring(metric_id) = {} => get_config(metrics, metric_id) = PyNone

C5_Witness ==
    /\ pc = "ready"
    /\ PairwiseDistinctIds
    /\ Cardinality(WellFormedFiles) = 2
    /\ Len(list_all(metrics)) = 2
    /\ get_config(metrics, "m1") # PyNone
    /\ get_config(metrics, "m2") # PyNone

BadFiles == (DOMAIN yaml_files) \ WellFormedFiles

Logged(level, what, k) == \E i \in DOMAIN log : log[i] = LogRecord(level, what, k)

\* C6: a configuration file that fails to parse or that lacks the `id` key is
\* logged and skipped: it adds no entry, discovery does not raise, and every
\* well-formed file, discovered before or after it, is loaded.
C6_BadFileLoggedAndSkipped ==
    /\ pc # "raised"
    /\ \A k \in BadFiles : Logged("error", "Failed to load", k)
    /\ \A k \in WellFormedFiles : get_config(metrics, yaml_files[k].doc.id) # PyNone
    /\ Len(list_all(metrics)) <= Cardinality(WellFormedFiles)

\* The positions of the implementation files discovery imports, and of those
\* whose import raises.
Imported == {k \in DOMAIN py_files : ~StartsWith(py_files[k].name, <<"_", "_">>)}
Failing == {k \in Imported : py_files[k].import_raises}

\* The positions of the imported files that tag a function with metric_id.
Tagging(metric_id) ==
    {k \in Imported \ Failing :
        \E j \in DOMAIN py_files[k].members :
            /\ "metric_id" \in DOMAIN py_files[k].members[j]
            /\ py_files[k].members[j].metric_id = metric_id}

\* C7: an implementation file whose import raises is logged and skipped: it
\* contributes no binding, the constructor does not raise, the tagged callables
\* of every other file - discovered before or after it - are bound, and the
\* configurations already loaded are kept.
C7_ImportFailureSkipped ==
    Failing # {}
        => /\ pc # "raised"
           /\ \A k \in Failing :
                 /\ Logged("error", "Failed to import", k)
                 /\ \A metric_id \in DOMAIN functions : functions[metric_id].module # k
           /\ \A metric_id \in Ids :
                 Tagging(metric_id) # {}
                     => /\ metric_id \in DOMAIN functions
                        /\ functions[metric_id].module = Latest(Tagging(metric_id))
           /\ \A k \in WellFormedFiles : get_config(metrics, yaml_files[k].doc.id) # PyNone

C7_Witness ==
    /\ pc = "ready"
    /\ Len(py_files) = 2
    /\ Failing = {1}
    /\ Tagging("m1") = {2}
    /\ get_function(functions, "m1") = FunctionObject(2, "fa")
    /\ get_config(metrics, "m1") # PyNone

-----------------------------------------------------------------------------
(* The process-wide accessor get_registry() and the module-level functions    *)
(* that go through it. Here yaml_files and py_files are the files under the   *)
(* default discovery root, which every construction by the accessor reads.    *)

\* The default of the constructor's metrics_module parameter, which is what
\* get_registry() constructs with: it passes no argument.
DefaultRoot == "metrics_hub.metrics"

InitRoot ==
    /\ root_importable \in BOOLEAN
    /\ yaml_files \in (IF root_importable THEN {<<>>, <<Parsed([id |-> "m1"])>>} ELSE {<<>>})
    /\ py_files \in (IF root_importable THEN {files \in PyRoots : Len(files) <= 1} ELSE {<<>>})
    /\ pc = "ready"
    /\ metrics = <<>>
    /\ functions = EmptyDict
    /\ log = <<>>
    /\ last = NoOp
    /\ NoAccessor
    /\ NoIo
    /\ NoTreatment

\* MetricRegistry(): the object the constructor leaves.
NewRegistry(importable, yamls, pys) ==
    LET c == Construct(importable, yamls, pys)
    IN [metrics_module |-> DefaultRoot, metrics |-> c.metrics, functions |-> c.functions,
        loaded |-> "ready"]

\* A variant of get_registry without the test of the global: every call
\* constructs a registry and rebinds the global.
get_registry_unmemoized(ref, heap, importable, yamls, pys) ==
    [registry |-> Len(heap) + 1,
     instances |-> Append(heap, NewRegistry(importable, yamls, pys)),
     ret |-> Len(heap) + 1]

\* get_registry() run from its first line to its return with no other thread
\* running: the new value of the global, the objects that exist, and the
\* reference returned.
get_registry(ref, heap, importable, yamls, pys) ==
    IF ref = NoRegistry
    THEN [registry |-> Len(heap) + 1,
          instances |-> Append(heap, NewRegistry(importable, yamls, pys)),
          ret |-> Len(heap) + 1]
    ELSE [registry |-> ref, instances |-> heap, ret |-> ref]

\* One access: the call of get_registry() that every module-level function starts
\* with, and the record of it.
Access(fn, g) ==
    /\ registry_ref' = g.registry
    /\ instances' = g.instances
    /\ log' = IF Len(g.instances) > Len(instances)
              THEN log \o Construct(root_importable, yaml_files, py_files).log
              ELSE log
    /\ accesses' = Append(accesses,
                          [fn |-> fn,
                           root |-> g.instances[g.ret].metrics_module,
                           instance |-> g.ret,
                           discovered |-> Len(g.instances) > Len(instances)])

AccessGetRegistry ==
    /\ Len(accesses) < MaxAccesses
    /\ LET g == get_registry(registry_ref, instances, root_importable, yaml_files, py_files)
       IN /\ Access("get_registry", g)
          /\ last' = [op |-> "get_registry", result |-> Return(g.ret)]
    /\ UNCHANGED treatment_vars
    /\ UNCHANGED <<pc, root_importable, yaml_files, py_files, metrics, functions, threads>>
    /\ UNCHANGED io_vars

\* get_metric(metric_id)
AccessGetMetric ==
    /\ Len(accesses) < MaxAccesses
    /\ \E metric_id \in Ids :
          LET g == get_registry(registry_ref, instances, root_importable, yaml_files, py_files)
          IN /\ Access("get_metric", g)
             /\ last' = [op |-> "get_function", metric_id |-> metric_id,
                         result |-> Return(get_function(g.instances[g.ret].functions,
                                                        metric_id))]
    /\ UNCHANGED treatment_vars
    /\ UNCHANGED <<pc, root_importable, yaml_files, py_files, metrics, functions, threads>>
    /\ UNCHANGED io_vars

\* list_metrics()
AccessListMetrics ==
    /\ Len(accesses) < MaxAccesses
    /\ LET g == get_registry(registry_ref, instances, root_importable, yaml_files, py_files)
       IN /\ Access("list_metrics", g)
          /\ last' = [op |-> "list_all",
                      result |-> Return(list_all(g.instances[g.ret].metrics))]
    /\ UNCHANGED treatment_vars
    /\ UNCHANGED <<pc, root_importable, yaml_files, py_files, metrics, functions, threads>>
    /\ UNCHANGED io_vars

\* The module-level call_metric(metric_id, **kwargs)
AccessCallMetric ==
    /\ Len(accesses) < MaxAccesses
    /\ \E metric_id \in Ids, kwargs \in {EmptyDict, [n \in {"p"} |-> "9"]},
          outcome \in Outcomes :
          LET g == get_registry(registry_ref, instances, root_importable, yaml_files, py_files)
              r == call_metric(g.instances[g.ret].metrics, g.instances[g.ret].functions,
                               metric_id, kwargs, outcome)
          IN /\ Access("call_metric", g)
             /\ last' = [op |-> "call_metric", metric_id |-> metric_id, kwargs |-> kwargs,
                         invoked |-> r.invoked, result |-> r.result]
    /\ UNCHANGED treatment_vars
    /\ UNCHANGED <<pc, root_importable, yaml_files, py_files, metrics, functions, threads>>
    /\ UNCHANGED io_vars

NextSequential ==
    \/ AccessGetRegistry
    \/ AccessGetMetric
    \/ AccessListMetrics
    \/ AccessCallMetric

SpecSequential == InitRoot /\ [][NextSequential]_vars

-----------------------------------------------------------------------------
(* get_registry() called from several threads: one step per access to shared  *)
(* state. A thread tests the global, constructs if it read None (the           *)
(* constructor's two loaders are a step each), binds the global, and reads the *)
(* global again to return it.                                                  *)

SetThread(t, pc_, obj, ret) ==
    threads' = [threads EXCEPT ![t] = [pc |-> pc_, obj |-> obj, ret |-> ret]]

\* if _registry is None
TestGlobal(t) ==
    /\ threads[t].pc = "idle"
    /\ SetThread(t, IF registry_ref = NoRegistry THEN "new" ELSE "return",
                 NoRegistry, NoRegistry)
    /\ UNCHANGED treatment_vars
    /\ UNCHANGED <<pc, root_importable, yaml_files, py_files, metrics, functions, log, last,
                   registry_ref, instances, accesses>>
    /\ UNCHANGED io_vars

\* A variant of NewObject that binds the global to the object before
\* load_metrics has run.
NewObjectPublishing(t) ==
    /\ threads[t].pc = "new"
    /\ instances' = Append(instances,
                           [metrics_module |-> DefaultRoot, metrics |-> <<>>,
                            functions |-> EmptyDict, loaded |-> "none"])
    /\ registry_ref' = Len(instances) + 1
    /\ SetThread(t, "configs", Len(instances) + 1, NoRegistry)
    /\ UNCHANGED treatment_vars
    /\ UNCHANGED <<pc, root_importable, yaml_files, py_files, metrics, functions, log, last,
                   accesses>>
    /\ UNCHANGED io_vars

\* MetricRegistry.__init__ up to the call of load_metrics
NewObject(t) ==
    /\ threads[t].pc = "new"
    /\ instances' = Append(instances,
                           [metrics_module |-> DefaultRoot, metrics |-> <<>>,
                            functions |-> EmptyDict, loaded |-> "none"])
    /\ SetThread(t, "configs", Len(instances) + 1, NoRegistry)
    /\ UNCHANGED treatment_vars
    /\ UNCHANGED <<pc, root_importable, yaml_files, py_files, metrics, functions, log, last,
                   registry_ref, accesses>>
    /\ UNCHANGED io_vars

\* self._load_configurations()
ObjectLoadConfigurations(t) ==
    /\ threads[t].pc = "configs"
    /\ LET obj == threads[t].obj
           r == LoadConfigurations(root_importable, instances[obj].metrics, log, yaml_files)
       IN /\ instances' = [instances EXCEPT ![obj].metrics = r.metrics,
                                            ![obj].loaded = "configs"]
          /\ log' = r.log
          /\ SetThread(t, "functions", obj, NoRegistry)
    /\ UNCHANGED treatment_vars
    /\ UNCHANGED <<pc, root_importable, yaml_files, py_files, metrics, functions, last,
                   registry_ref, accesses>>
    /\ UNCHANGED io_vars

\* self._load_functions(), after which the constructor returns
ObjectLoadFunctions(t) ==
    /\ threads[t].pc = "functions"
    /\ LET obj == threads[t].obj
           r == LoadFunctions(root_importable, instances[obj].functions, log, py_files)
       IN /\ instances' = [instances EXCEPT ![obj].functions = r.functions,
                                            ![obj].loaded = "ready"]
          /\ log' = r.log
          /\ SetThread(t, "bind", obj, NoRegistry)
    /\ UNCHANGED treatment_vars
    /\ UNCHANGED <<pc, root_importable, yaml_files, py_files, metrics, functions, last,
                   registry_ref, accesses>>
    /\ UNCHANGED io_vars

\* _registry = <the object constructed>
BindGlobal(t) ==
    /\ threads[t].pc = "bind"
    /\ registry_ref' = threads[t].obj
    /\ SetThread(t, "return", threads[t].obj, NoRegistry)
    /\ UNCHANGED treatment_vars
    /\ UNCHANGED <<pc, root_importable, yaml_files, py_files, metrics, functions, log, last,
                   instances, accesses>>
    /\ UNCHANGED io_vars

\* return _registry
ReturnGlobal(t) ==
    /\ threads[t].pc = "return"
    /\ SetThread(t, "done", threads[t].obj, registry_ref)
    /\ UNCHANGED treatment_vars
    /\ UNCHANGED <<pc, root_importable, yaml_files, py_files, metrics, functions, log, last,
                   registry_ref, instances, accesses>>
    /\ UNCHANGED io_vars

NextThreads ==
    \E t \in Threads :
        \/ TestGlobal(t)
        \/ NewObject(t)
        \/ ObjectLoadConfigurations(t)
        \/ ObjectLoadFunctions(t)
        \/ BindGlobal(t)
        \/ ReturnGlobal(t)

SpecThreads == InitRoot /\ [][NextThreads]_vars

-----------------------------------------------------------------------------
(* Properties of the accessor. *)

Returned == {t \in Threads : threads[t].pc = "done"}

\* The objects whose constructor has run discovery to its end.
Constructed == {i \in DOMAIN instances : instances[i].loaded = "ready"}

\* C9: under any interleaving of concurrent get_registry() calls that start while
\* no registry exists, the registry is constructed at most once and every caller
\* obtains that one instance. Checked under SpecThreads.
C9_ConstructedAtMostOnce ==
    /\ Cardinality(Constructed) <= 1
    /\ \A t, u \in Returned : threads[t].ret = threads[u].ret

\* C10: the accessor builds a registry lazily, not before the first access, and
\* memoizes it per discovery root: of the accesses made one after another, two
\* return the identical instance if and only if they are for the same root, and
\* no access after the first for a root runs discovery. Checked under
\* SpecSequential.
C10_LazyMemoizedPerRoot ==
    /\ accesses = <<>> => (registry_ref = NoRegistry /\ instances = <<>>)
    /\ \A a, b \in DOMAIN accesses :
          (accesses[a].instance = accesses[b].instance)
              <=> (accesses[a].root = accesses[b].root)
    /\ \A a, b \in DOMAIN accesses :
          (a < b /\ accesses[a].root = accesses[b].root) => ~accesses[b].discovered
    /\ accesses # <<>> => accesses[1].discovered

C10_Witness ==
    /\ Len(accesses) = 3
    /\ accesses[1].fn = "call_metric"
    /\ accesses[2].fn = "get_registry"
    /\ accesses[3].fn = "list_metrics"
    /\ \A a \in DOMAIN accesses : accesses[a].instance = registry_ref
    /\ Len(instances) = 1
    /\ instances[1].functions # EmptyDict

-----------------------------------------------------------------------------
(* The result classifier, _process_result of src/metrics_hub/api.py.          *)
(*                                                                            *)
(* A Python value is a record whose `kind` is its type. What the classifier   *)
(* asks of a value is isinstance(value, pd.DataFrame), isinstance(value,      *)
(* go.Figure), isinstance(value, dict) and hasattr(value, 'to_plotly_json');  *)
(* what it calls on it is to_csv, to_html, to_dict and to_plotly_json.        *)

MaxRows == 2        \* rows of a table
MaxColumns == 2     \* columns of a table
MaxKeys == 2        \* entries of a mapping

Formats == {"json", "html", "csv"}
ColumnNames == {"a", "b"}
Cells == {0, 1}
Keys == {"table", "chart", "n"}

DataFrame(columns, rows) == [kind |-> "DataFrame", columns |-> columns, rows |-> rows]

\* pd.DataFrame values: the column labels, which pandas lets repeat, and the rows.
Tables ==
    UNION {{DataFrame(columns, rows) :
                columns \in [1..c -> ColumnNames],
                rows \in UNION {[1..r -> [1..c -> Cells]] : r \in 0..MaxRows}} :
             c \in 0..MaxColumns}

SampleTable == DataFrame(<<"a">>, <<<<0>>, <<1>>>>)

\* go.Figure(data=[go.Bar(...)]), go.FigureWidget(data=[go.Bar(...)]) and the
\* trace go.Bar(...) itself. FigureWidget and Bar are not subclasses of go.Figure.
Figure == [kind |-> "Figure", data |-> <<"bar">>]
FigureWidget == [kind |-> "FigureWidget", data |-> <<"bar">>]
Bar == [kind |-> "Bar", type |-> "bar"]
PlotlyObjects == {Figure, FigureWidget, Bar}

PyInt(n) == [kind |-> "int", int |-> n]
PyStr(s) == [kind |-> "str", str |-> s]
PyList(elems) == [kind |-> "list", elems |-> elems]
PyDict(items) == [kind |-> "dict", items |-> items]

Simples == {PyInt(5), PyStr("5"), PyStr("a"), PyList(<<PyInt(5)>>)}

\* The values of a mapping's entries: a table, the plotly objects, simple values
\* and a nested mapping that holds a table.
EntryValues ==
    {SampleTable} \cup PlotlyObjects \cup Simples
        \cup {PyDict([k \in {"table"} |-> SampleTable])}

Dicts ==
    {PyDict(items) :
        items \in UNION {[S -> EntryValues] :
                           S \in {T \in SUBSET Keys : Cardinality(T) <= MaxKeys}}}

\* pl.DataFrame({"a": [0, 1]}): a polars table. It is not a pd.DataFrame and has
\* neither to_plotly_json nor to_html.
PolarsDataFrame(columns, rows) ==
    [kind |-> "PolarsDataFrame", columns |-> columns, rows |-> rows]

\* df.to_pandas() of a polars table
to_pandas(frame) == DataFrame(frame.columns, frame.rows)

Results ==
    Tables \cup {PolarsDataFrame(SampleTable.columns, SampleTable.rows)}
        \cup PlotlyObjects \cup Simples \cup Dicts

isinstance(value, type) ==
    CASE type = "DataFrame" -> value.kind = "DataFrame"
      [] type = "Figure" -> value.kind = "Figure"
      [] type = "dict" -> value.kind = "dict"

\* BasePlotlyType and BaseFigure define to_plotly_json; only BaseFigure (and
\* DataFrame) defines to_html.
hasattr(value, attr) ==
    CASE attr = "to_plotly_json" -> value.kind \in {"Figure", "FigureWidget", "Bar"}
      [] attr = "to_html" -> value.kind \in {"Figure", "FigureWidget", "DataFrame"}

\* The position of the last column labelled c: on repeated labels the row
\* mapping keeps the value of the last one.
LastColumn(columns, c) ==
    CHOOSE j \in DOMAIN columns :
        columns[j] = c /\ \A k \in DOMAIN columns : columns[k] = c => k <= j

\* A variant of to_dict_records with orient="list": one entry per column, which
\* holds that column's values.
to_dict_list(df) ==
    [kind |-> "list",
     elems |-> [j \in DOMAIN df.columns |->
                   [c \in {df.columns[j]} |-> [i \in DOMAIN df.rows |-> df.rows[i][j]]]]]

\* DataFrame.to_dict(orient="records"): a list with one mapping per row, keyed by
\* the column labels.
to_dict_records(df) ==
    [kind |-> "list",
     elems |-> [i \in DOMAIN df.rows |->
                   [c \in {df.columns[j] : j \in DOMAIN df.columns} |->
                       df.rows[i][LastColumn(df.columns, c)]]]]

\* A variant of to_csv with header=False.
to_csv_without_header(df) ==
    [kind |-> "text", format |-> "csv", header |-> <<>>, lines |-> df.rows]

\* DataFrame.to_csv(index=False): delimited text, the header line with the column
\* labels and then one line per row, without the index.
to_csv(df) ==
    [kind |-> "text", format |-> "csv", header |-> <<df.columns>>, lines |-> df.rows]

\* DataFrame.to_html(classes=...) and Figure.to_html(...): markup that renders
\* the value, as a <table>, as a full document or as a <div>.
to_html(value, as) == [kind |-> "text", format |-> "html", element |-> as, of |-> value]

\* Figure.to_dict() and to_plotly_json(): the JSON-serializable description.
to_plotly_json(value) == [kind |-> "json_description", of |-> value]

\* The loop over result.items(): the processed entry of one key.
ProcessEntry(value, output_format) ==
    IF isinstance(value, "DataFrame")
    THEN IF output_format = "json"
         THEN to_dict_records(value)
         ELSE to_html(value, "table")
    ELSE IF isinstance(value, "Figure")
    THEN IF output_format = "html"
         THEN to_html(value, "div")
         ELSE to_plotly_json(value)
    ELSE value

\* contains_complex when the loop ends.
ContainsComplex(items) ==
    \E k \in DOMAIN items :
        isinstance(items[k], "DataFrame") \/ isinstance(items[k], "Figure")

\* _process_result(result, output_format): the pair it returns or the error it
\* raises.
process_result(result, output_format) ==
    IF isinstance(result, "DataFrame")
    THEN IF output_format = "csv"
         THEN Return(<<"dataframe", to_csv(result)>>)
         ELSE IF output_format = "html"
         THEN Return(<<"dataframe", to_html(result, "table")>>)
         ELSE Return(<<"dataframe", to_dict_records(result)>>)
    ELSE IF isinstance(result, "Figure")
    THEN IF output_format = "html"
         THEN Return(<<"plotly", to_html(result, "document")>>)
         ELSE Return(<<"plotly", to_plotly_json(result)>>)
    ELSE IF hasattr(result, "to_plotly_json")
    THEN IF output_format = "html"
         THEN IF hasattr(result, "to_html")
              THEN Return(<<"plotly", to_html(result, "document")>>)
              ELSE Raise("AttributeError", "to_html")
         ELSE Return(<<"plotly", to_plotly_json(result)>>)
    ELSE IF isinstance(result, "dict")
    THEN Return(<<IF ContainsComplex(result.items) THEN "complex" ELSE "dict",
                  PyDict([k \in DOMAIN result.items |->
                             ProcessEntry(result.items[k], output_format)])>>)
    ELSE Return(<<"simple", result>>)

\* No registry is involved in a classification.
InitClassifier ==
    /\ pc = "ready"
    /\ root_importable = FALSE
    /\ yaml_files = <<>>
    /\ py_files = <<>>
    /\ metrics = <<>>
    /\ functions = EmptyDict
    /\ log = <<>>
    /\ last = NoOp
    /\ NoAccessor
    /\ NoIo
    /\ NoTreatment

\* One classification per behaviour: the function keeps no state between calls.
ProcessResult ==
    /\ last = NoOp
    /\ \E result \in Results, output_format \in Formats :
          last' = [op |-> "_process_result", value |-> result,
                   output_format |-> output_format,
                   result |-> process_result(result, output_format)]
    /\ UNCHANGED treatment_vars
    /\ UNCHANGED accessor_vars
    /\ UNCHANGED <<pc, root_importable, yaml_files, py_files, metrics, functions, log>>
    /\ UNCHANGED io_vars

NextClassifier == ProcessResult

SpecClassifier == InitClassifier /\ [][NextClassifier]_vars

-----------------------------------------------------------------------------
(* DataTreatment of src/cap/data/treatment.py.                                *)
(*                                                                            *)
(* A table is modelled by where it comes from: the source that returned it,   *)
(* the keyword arguments of the fetch, and the transformers applied to it, in *)
(* order. _sources is a dict in insertion order; _transformers is a           *)
(* defaultdict(list), whose keys are the names a chain exists for.            *)

MaxTransformers == 2   \* transformers added to a treatment, over all names
MaxSelected == 2       \* names passed to load_many

SourceNames == {"a", "b"}

\* BaseSource objects: what fetch does. NotASource is an object of another class.
Sources == {[source |-> "s1", fetch |-> "return"],
            [source |-> "s2", fetch |-> "raise"]}
NotASource == [object |-> "str"]

\* Transformer callables: what a call does.
Transformers == {[transformer |-> "t1", call |-> "return"],
                 [transformer |-> "t2", call |-> "return"],
                 [transformer |-> "t3", call |-> "raise"]}

FetchKwargs == {EmptyDict, [k \in {"columns"} |-> "x"]}
FetchPlans == {PyNone, [k \in {"a"} |-> [j \in {"columns"} |-> "x"]]}

\* The names argument of load_many: None or a sequence of names, each selected
\* once.
NameLists ==
    {PyNone} \cup
        {[names |-> s] :
            s \in UNION {{q \in [1..n -> SourceNames] :
                            \A i, j \in 1..n : i # j => q[i] # q[j]} :
                         n \in 0..MaxSelected}}

Table(source, kwargs) == [source |-> source.source, kwargs |-> kwargs, applied |-> <<>>]

FetchEvent(source, kwargs) == [event |-> "fetch", source |-> source.source, kwargs |-> kwargs]
CallEvent(transformer) == [event |-> "call", transformer |-> transformer.transformer]

\* source.fetch(**fetch_kwargs)
Fetch(source, kwargs) ==
    IF source.fetch = "return"
    THEN Return(Table(source, kwargs))
    ELSE Raise("IOError", source.source)

\* transformer(df)
CallTransformer(transformer, df) ==
    IF transformer.call = "return"
    THEN Return([df EXCEPT !.applied = Append(@, transformer.transformer)])
    ELSE Raise("ValueError", transformer.transformer)

DictKeySeq(d) == [i \in DOMAIN d |-> d[i].key]

\* self._transformers.get(name, [])
Chain(trs, name) == IF name \in DOMAIN trs THEN trs[name] ELSE <<>>

\* A variant of register_source that removes the registration under the name
\* before it tests the source.
register_source_dropping(srcs, name, source) ==
    IF source \notin Sources
    THEN [sources |-> SelectSeq(srcs, LAMBDA item : item.key # name),
          result |-> Raise("TypeError", "source must inherit from BaseSource")]
    ELSE [sources |-> DictSet(srcs, name, source), result |-> Return(PyNone)]

\* register_source(name, source): _sources afterwards and what the call returns.
register_source(srcs, name, source) ==
    IF source \notin Sources
    THEN [sources |-> srcs, result |-> Raise("TypeError", "source must inherit from BaseSource")]
    ELSE [sources |-> DictSet(srcs, name, source), result |-> Return(PyNone)]

\* A variant of register_source_chains that starts the name's chain afresh when a
\* source is registered under it.
register_source_resetting_chain(trs, name, source) ==
    IF source \in Sources
    THEN [n \in (DOMAIN trs) \ {name} |-> trs[n]]
    ELSE trs

\* _transformers after register_source(name, source): the method does not
\* refer to it.
register_source_chains(trs, name, source) == trs

\* The sources argument of the constructor: None or a mapping, in its order.
InitialSources ==
    {PyNone} \cup
        {[items |-> q] :
            q \in UNION {{m \in [1..n -> [key : SourceNames,
                                          value : Sources \cup {NotASource}]] :
                            \A i, j \in 1..n : i # j => m[i].key # m[j].key} :
                         n \in 0..Cardinality(SourceNames)}}

\* for name, source in sources.items(): self.register_source(name, source)
RECURSIVE RegisterAll(_, _)
RegisterAll(srcs, items) ==
    IF items = <<>>
    THEN [sources |-> srcs, result |-> Return(PyNone)]
    ELSE LET r == register_source(srcs, Head(items).key, Head(items).value)
         IN IF r.result.kind = "raise"
            THEN r
            ELSE RegisterAll(r.sources, Tail(items))

\* DataTreatment(sources): _sources when __init__ ends, and whether it returns
\* or raises.
init_treatment(initial) ==
    IF initial # PyNone /\ initial.items # <<>>
    THEN RegisterAll(<<>>, initial.items)
    ELSE [sources |-> <<>>, result |-> Return(PyNone)]

\* add_transformer(name, transformer): _transformers afterwards.
add_transformer(trs, name, transformer) ==
    Put(trs, name, Append(Chain(trs, name), transformer))

\* A variant of ApplyTransformers that runs the chain from its last transformer
\* to its first.
RECURSIVE ApplyTransformersReversed(_, _, _)
ApplyTransformersReversed(chain, df, events) ==
    IF chain = <<>>
    THEN [result |-> Return(df), events |-> events]
    ELSE LET transformer == chain[Len(chain)]
             r == CallTransformer(transformer, df)
         IN IF r.kind = "raise"
            THEN [result |-> r, events |-> Append(events, CallEvent(transformer))]
            ELSE ApplyTransformersReversed(SubSeq(chain, 1, Len(chain) - 1), r.value,
                                           Append(events, CallEvent(transformer)))

\* for transformer in chain: df = transformer(df)
RECURSIVE ApplyTransformers(_, _, _)
ApplyTransformers(chain, df, events) ==
    IF chain = <<>>
    THEN [result |-> Return(df), events |-> events]
    ELSE LET transformer == Head(chain)
             r == CallTransformer(transformer, df)
         IN IF r.kind = "raise"
            THEN [result |-> r, events |-> Append(events, CallEvent(transformer))]
            ELSE ApplyTransformers(Tail(chain), r.value,
                                   Append(events, CallEvent(transformer)))

\* A variant of load that fetches before it tests the name, from a source with
\* the default name when the name is not registered.
load_fetching_first(srcs, trs, name, apply_transformers, fetch_kwargs) ==
    LET source == IF name \in DictKeys(srcs) THEN DictGet(srcs, name)
                  ELSE [source |-> "default", fetch |-> "return"]
        events == <<FetchEvent(source, fetch_kwargs)>>
    IN IF name \notin DictKeys(srcs)
       THEN [result |-> Raise("KeyError", name), events |-> events, transformers |-> trs]
       ELSE LET f == Fetch(source, fetch_kwargs)
            IN IF f.kind = "raise" \/ ~apply_transformers
               THEN [result |-> f, events |-> events, transformers |-> trs]
               ELSE LET t == ApplyTransformers(Chain(trs, name), f.value, events)
                    IN [result |-> t.result, events |-> t.events, transformers |-> trs]

\* A variant of load that subscripts the defaultdict (self._transformers[name]),
\* which creates an empty chain for a name that has none.
load_subscripting_chain(srcs, trs, name, apply_transformers, fetch_kwargs) ==
    IF name \notin DictKeys(srcs)
    THEN [result |-> Raise("KeyError", name), events |-> <<>>, transformers |-> trs]
    ELSE LET source == DictGet(srcs, name)
             f == Fetch(source, fetch_kwargs)
             events == <<FetchEvent(source, fetch_kwargs)>>
         IN IF f.kind = "raise" \/ ~apply_transformers
            THEN [result |-> f, events |-> events, transformers |-> trs]
            ELSE LET t == ApplyTransformers(Chain(trs, name), f.value, events)
                 IN [result |-> t.result, events |-> t.events,
                     transformers |-> Put(trs, name, Chain(trs, name))]

\* load(name, apply_transformers=..., **fetch_kwargs): what it returns or raises,
\* the fetches and transformer calls it makes, in order, and _transformers
\* afterwards.
load(srcs, trs, name, apply_transformers, fetch_kwargs) ==
    IF name \notin DictKeys(srcs)
    THEN [result |-> Raise("KeyError", name), events |-> <<>>, transformers |-> trs]
    ELSE LET source == DictGet(srcs, name)
             f == Fetch(source, fetch_kwargs)
             events == <<FetchEvent(source, fetch_kwargs)>>
         IN IF f.kind = "raise" \/ ~apply_transformers
            THEN [result |-> f, events |-> events, transformers |-> trs]
            ELSE LET t == ApplyTransformers(Chain(trs, name), f.value, events)
                 IN [result |-> t.result, events |-> t.events, transformers |-> trs]

\* names or self._sources.keys()
Selected(srcs, names) ==
    IF names # PyNone /\ names.names # <<>> THEN names.names ELSE DictKeySeq(srcs)

\* dict(fetch_plan.get(name, {})) if fetch_plan else {}
PlanKwargs(fetch_plan, name) ==
    IF Truthy(fetch_plan) /\ name \in DOMAIN fetch_plan THEN fetch_plan[name] ELSE EmptyDict

\* A variant of LoadManyLoop that catches the error of a load, leaves that name
\* out of the results and goes on with the next name.
RECURSIVE LoadManyLoopSkipping(_, _, _, _, _, _, _)
LoadManyLoopSkipping(srcs, trs, selected, fetch_plan, apply_transformers, results, events) ==
    IF selected = <<>>
    THEN [result |-> Return(results), events |-> events, transformers |-> trs]
    ELSE LET name == Head(selected)
             l == load(srcs, trs, name, apply_transformers, PlanKwargs(fetch_plan, name))
         IN LoadManyLoopSkipping(srcs, l.transformers, Tail(selected), fetch_plan,
                                 apply_transformers,
                                 IF l.result.kind = "raise"
                                 THEN results
                                 ELSE DictSet(results, name, l.result.value),
                                 events \o l.events)

\* The loop of load_many over the selected names.
RECURSIVE LoadManyLoop(_, _, _, _, _, _, _)
LoadManyLoop(srcs, trs, selected, fetch_plan, apply_transformers, results, events) ==
    IF selected = <<>>
    THEN [result |-> Return(results), events |-> events, transformers |-> trs]
    ELSE LET name == Head(selected)
             l == load(srcs, trs, name, apply_transformers, PlanKwargs(fetch_plan, name))
         IN IF l.result.kind = "raise"
            THEN [result |-> l.result, events |-> events \o l.events,
                  transformers |-> l.transformers]
            ELSE LoadManyLoop(srcs, l.transformers, Tail(selected), fetch_plan,
                              apply_transformers,
                              DictSet(results, name, l.result.value),
                              events \o l.events)

\* load_many(names, fetch_plan=..., apply_transformers=...)
load_many(srcs, trs, names, fetch_plan, apply_transformers) ==
    LoadManyLoop(srcs, trs, Selected(srcs, names), fetch_plan, apply_transformers,
                 <<>>, <<>>)

\* available_sources()
available_sources(srcs) == DictKeySeq(srcs)

\* The number of transformers added so far, over all names.
RECURSIVE AddedTransformers(_, _)
AddedTransformers(trs, names) ==
    IF names = {}
    THEN 0
    ELSE LET n == CHOOSE x \in names : TRUE
         IN Len(trs[n]) + AddedTransformers(trs, names \ {n})

\* DataTreatment(): no source registered, no transformer chain.
InitTreatment ==
    /\ pc = "ready"
    /\ root_importable = FALSE
    /\ yaml_files = <<>>
    /\ py_files = <<>>
    /\ metrics = <<>>
    /\ functions = EmptyDict
    /\ log = <<>>
    /\ last = NoOp
    /\ NoAccessor
    /\ NoIo
    /\ sources = <<>>
    /\ transformers = EmptyDict

\* treatment = DataTreatment(sources), evaluated first: when the constructor
\* raises, no object is bound and the treatment stays the empty one.
NewDataTreatment ==
    /\ last = NoOp
    /\ \E initial \in InitialSources :
          LET r == init_treatment(initial)
          IN /\ sources' = IF r.result.kind = "raise" THEN sources ELSE r.sources
             /\ last' = [op |-> "DataTreatment", initial |-> initial,
                         registered |-> r.sources, result |-> r.result]
    /\ UNCHANGED transformers
    /\ UNCHANGED accessor_vars
    /\ UNCHANGED <<pc, root_importable, yaml_files, py_files, metrics, functions, log>>
    /\ UNCHANGED io_vars

RegisterSource ==
    /\ \E name \in SourceNames, source \in Sources \cup {NotASource} :
          LET r == register_source(sources, name, source)
          IN /\ sources' = r.sources
             /\ transformers' = register_source_chains(transformers, name, source)
             /\ last' = [op |-> "register_source", name |-> name, source |-> source,
                         result |-> r.result]
    /\ UNCHANGED accessor_vars
    /\ UNCHANGED <<pc, root_importable, yaml_files, py_files, metrics, functions, log>>
    /\ UNCHANGED io_vars

AddTransformer ==
    /\ AddedTransformers(transformers, DOMAIN transformers) < MaxTransformers
    /\ \E name \in SourceNames, transformer \in Transformers :
          /\ transformers' = add_transformer(transformers, name, transformer)
          /\ last' = [op |-> "add_transformer", name |-> name, result |-> Return(PyNone)]
    /\ UNCHANGED sources
    /\ UNCHANGED accessor_vars
    /\ UNCHANGED <<pc, root_importable, yaml_files, py_files, metrics, functions, log>>
    /\ UNCHANGED io_vars

Load ==
    /\ \E name \in SourceNames, apply_transformers \in BOOLEAN, fetch_kwargs \in FetchKwargs :
          LET l == load(sources, transformers, name, apply_transformers, fetch_kwargs)
          IN /\ transformers' = l.transformers
             /\ last' = [op |-> "load", name |-> name,
                         apply_transformers |-> apply_transformers,
                         fetch_kwargs |-> fetch_kwargs,
                         events |-> l.events, result |-> l.result]
    /\ UNCHANGED sources
    /\ UNCHANGED accessor_vars
    /\ UNCHANGED <<pc, root_importable, yaml_files, py_files, metrics, functions, log>>
    /\ UNCHANGED io_vars

LoadMany ==
    /\ \E names \in NameLists, fetch_plan \in FetchPlans, apply_transformers \in BOOLEAN :
          LET l == load_many(sources, transformers, names, fetch_plan, apply_transformers)
          IN /\ transformers' = l.transformers
             /\ last' = [op |-> "load_many", names |-> names, fetch_plan |-> fetch_plan,
                         apply_transformers |-> apply_transformers,
                         events |-> l.events, result |-> l.result]
    /\ UNCHANGED sources
    /\ UNCHANGED accessor_vars
    /\ UNCHANGED <<pc, root_importable, yaml_files, py_files, metrics, functions, log>>
    /\ UNCHANGED io_vars

AvailableSources ==
    /\ last' = [op |-> "available_sources", result |-> Return(available_sources(sources))]
    /\ UNCHANGED treatment_vars
    /\ UNCHANGED accessor_vars
    /\ UNCHANGED <<pc, root_importable, yaml_files, py_files, metrics, functions, log>>
    /\ UNCHANGED io_vars

NextTreatment ==
    \/ NewDataTreatment
    \/ RegisterSource
    \/ AddTransformer
    \/ Load
    \/ LoadMany
    \/ AvailableSources

SpecTreatment == InitTreatment /\ [][NextTreatment]_vars

-----------------------------------------------------------------------------
(* Properties of the classifier, checked under SpecClassifier. A table is a   *)
(* DataFrame; a chart is a value that exposes the chart-serialization         *)
(* capability, to_plotly_json.                                                *)

Classified == last.op = "_process_result"
ShapeTag == last.result.value[1]
Encoded == last.result.value[2]

IsTable(value) == value.kind = "DataFrame"
IsChart(value) == hasattr(value, "to_plotly_json")
IsMapping(value) == value.kind = "dict"

\* str(value) for the simple values classified here.
StringOf(value) ==
    CASE value.kind = "str" -> value
      [] value = PyInt(5) -> PyStr("5")
      [] value = PyList(<<PyInt(5)>>) -> PyStr("[5]")
      [] OTHER -> PyStr("<object>")

\* C12: a mapping classifies as "complex" if at least one of its values is a
\* table or a chart and as "dict" if none is, for every output format; the empty
\* mapping is "dict".
C12_ComplexIffTableOrChart ==
    (Classified /\ IsMapping(last.value))
        => /\ last.result.kind = "return"
           /\ ShapeTag = IF \E k \in DOMAIN last.value.items :
                                IsTable(last.value.items[k]) \/ IsChart(last.value.items[k])
                         THEN "complex"
                         ELSE "dict"

C14_MappingJsonEncoding ==
    (Classified /\ IsMapping(last.value) /\ last.output_format = "json")
        => /\ last.result.kind = "return"
           /\ Encoded.kind = "dict"
           /\ DOMAIN Encoded.items = DOMAIN last.value.items
           /\ \A k \in DOMAIN last.value.items :
                 LET value == last.value.items[k] IN
                 Encoded.items[k] =
                     IF IsTable(value) THEN to_dict_records(value)
                     ELSE IF IsChart(value) THEN to_plotly_json(value)
                     ELSE value

\* C15: in html format a simple value is encoded as its string representation,
\* and in a mapping every entry that is neither a table nor a chart is encoded
\* as its string representation under its key.
C15_HtmlStringRepresentation ==
    (Classified /\ last.output_format = "html")
        => /\ (~IsTable(last.value) /\ ~IsChart(last.value) /\ ~IsMapping(last.value))
                 => /\ last.result.kind = "return"
                    /\ Encoded = StringOf(last.value)
           /\ IsMapping(last.value)
                 => /\ last.result.kind = "return"
                    /\ \A k \in DOMAIN last.value.items :
                          LET value == last.value.items[k] IN
                          (~IsTable(value) /\ ~IsChart(value))
                              => Encoded.items[k] = StringOf(value)

\* C16: for every table, chart, simple value or mapping of these and every
\* format tag, the classification returns a pair whose shape tag is one of the
\* fixed shapes, and does not raise.
C16_NeverRaises ==
    Classified
        => /\ last.result.kind = "return"
           /\ ShapeTag \in {"dataframe", "plotly", "simple", "dict", "complex"}

-----------------------------------------------------------------------------
(* Properties of DataTreatment, checked under SpecTreatment. load and         *)
(* load_many leave _sources and _transformers as they were (C19), so the      *)
(* chain and the source a call used are the ones of the state it leaves.      *)

Loaded == last.op = "load"
LoadedMany == last.op = "load_many"
Registered(name) == name \in DictKeys(sources)

\* The first transformer of a chain that raises, or 0.
FirstRaising(chain) ==
    IF \E i \in DOMAIN chain : chain[i].call = "raise"
    THEN CHOOSE i \in DOMAIN chain :
            /\ chain[i].call = "raise"
            /\ \A j \in 1..(i - 1) : chain[j].call = "return"
    ELSE 0

CallEvents(chain, n) == [i \in 1..n |-> CallEvent(chain[i])]

\* C17: load(name) with apply_transformers true returns t_n(...t_1(fetch(...)))
\* for the transformers t_1..t_n added for that name, in the order they were
\* added, each applied exactly once to the previous one's output, and no
\* transformer added for another name is applied; with apply_transformers false
\* the fetched table is returned with no transformer applied.
C17_TransformersInOrder ==
    (Loaded /\ Registered(last.name) /\ DictGet(sources, last.name).fetch = "return")
        => LET source == DictGet(sources, last.name)
               chain == Chain(transformers, last.name)
               fetched == Table(source, last.fetch_kwargs)
               first == <<FetchEvent(source, last.fetch_kwargs)>>
           IN /\ (last.apply_transformers /\ FirstRaising(chain) = 0)
                    => /\ last.result =
                             Return([fetched EXCEPT
                                        !.applied = [i \in DOMAIN chain |->
                                                        chain[i].transformer]])
                       /\ last.events = first \o CallEvents(chain, Len(chain))
              /\ (last.apply_transformers /\ FirstRaising(chain) # 0)
                    => /\ last.result.kind = "raise"
                       /\ last.events = first \o CallEvents(chain, FirstRaising(chain))
              /\ ~last.apply_transformers
                    => /\ last.result = Return(fetched)
                       /\ last.events = first

\* A load that applied t2 and then t1, the order in which they were added.
C17_Witness ==
    /\ Loaded
    /\ last.name = "a"
    /\ last.apply_transformers
    /\ Registered("a")
    /\ transformers = [n \in {"a"} |-> <<[transformer |-> "t2", call |-> "return"],
                                        [transformer |-> "t1", call |-> "return"]>>]
    /\ last.result.kind = "return"
    /\ last.result.value.applied = <<"t2", "t1">>

\* C18: load(name) for a name that is not a registered source fails with a
\* KeyError before any source is fetched and before any transformer runs, also
\* when transformers have been added under that name.
C18_UnknownSourceKeyError ==
    (Loaded /\ ~Registered(last.name))
        => /\ last.result.kind = "raise"
           /\ last.result.type = "KeyError"
           /\ last.events = <<>>

\* A load of the unregistered name b, under which a transformer was added, next
\* to the registered name a.
C18_Witness ==
    /\ Loaded
    /\ last.name = "b"
    /\ last.apply_transformers
    /\ DictKeys(sources) = {"a"}
    /\ "b" \in DOMAIN transformers
    /\ last.result = Raise("KeyError", "b")

\* C19: no load or load_many call, returning or raising, for a registered or an
\* unregistered name, with or without transformers, changes the registered
\* source names or their order, the source bound to a name, or any transformer
\* chain (none is created, extended or reordered); available_sources() returns
\* the same sequence before and after.
C19_LoadsLeaveTreatmentUnchanged ==
    [][(last'.op \in {"load", "load_many"})
          => /\ sources' = sources
             /\ transformers' = transformers
             /\ available_sources(sources') = available_sources(sources)]_vars

\* A load that applied transformers for a registered name that has no chain,
\* after which that name still has none.
C19_Witness ==
    /\ Loaded
    /\ last.name = "a"
    /\ last.apply_transformers
    /\ last.result.kind = "return"
    /\ available_sources(sources) = <<"b", "a">>
    /\ DOMAIN transformers = {"b"}

\* What makes the load of a name fail, or PyNone if it succeeds.
FailureOf(name, apply_transformers) ==
    IF ~Registered(name)
    THEN Raise("KeyError", name)
    ELSE IF DictGet(sources, name).fetch = "raise"
    THEN Raise("IOError", DictGet(sources, name).source)
    ELSE IF apply_transformers /\ FirstRaising(Chain(transformers, name)) # 0
    THEN Raise("ValueError",
               Chain(transformers, name)[FirstRaising(Chain(transformers, name))].transformer)
    ELSE PyNone

Fetches(events) == {i \in DOMAIN events : events[i].event = "fetch"}

\* C20: if the load of a selected source fails during load_many (unknown name,
\* fetch error or transformer error), load_many raises that error and returns no
\* mapping, and the sources later in the selection order are not fetched.
C20_LoadManyAborts ==
    LoadedMany
        => LET selected == Selected(sources, last.names)
               failing == {i \in DOMAIN selected :
                              FailureOf(selected[i], last.apply_transformers) # PyNone}
           IN failing # {}
                 => LET k == CHOOSE i \in failing : \A j \in failing : i <= j
                    IN /\ last.result = FailureOf(selected[k], last.apply_transformers)
                       /\ Cardinality(Fetches(last.events))
                            = Cardinality({i \in 1..k : Registered(selected[i])})

\* load_many(["a", "b"]) where a loads and the fetch of b fails: the error of b
\* reaches the caller, the table of a does not.
C20_Witness ==
    /\ LoadedMany
    /\ last.names = [names |-> <<"a", "b">>]
    /\ Registered("a")
    /\ Registered("b")
    /\ DictGet(sources, "a").fetch = "return"
    /\ DictGet(sources, "b").fetch = "raise"
    /\ last.result = Raise("IOError", "s2")
    /\ Cardinality(Fetches(last.events)) = 2

\* C21: load_many returns a mapping whose keys are exactly the selected names:
\* every registered name when `names` is omitted, exactly the supplied names when
\* it is supplied, an empty sequence included. Each key maps to the result of
\* load for that name, fetched with the overrides of fetch_plan[name] and with no
\* overrides for a name absent from fetch_plan.
C21_LoadManySelectedKeys ==
    (LoadedMany /\ last.result.kind = "return")
        => LET wanted == IF last.names = PyNone
                         THEN DictKeys(sources)
                         ELSE {last.names.names[i] : i \in DOMAIN last.names.names}
               overrides(name) ==
                   IF last.fetch_plan # PyNone /\ name \in DOMAIN last.fetch_plan
                   THEN last.fetch_plan[name]
                   ELSE EmptyDict
           IN /\ DictKeys(last.result.value) = wanted
              /\ \A name \in wanted :
                    Return(DictGet(last.result.value, name))
                        = load(sources, transformers, name, last.apply_transformers,
                               overrides(name)).result

\* The registrations other than the one under `name` are the same in both.
SameElsewhere(before, after, name) ==
    /\ DictKeys(after) \ {name} = DictKeys(before) \ {name}
    /\ \A n \in DictKeys(before) \ {name} : DictGet(after, n) = DictGet(before, n)

\* The first item of the constructor's mapping that is not a BaseSource, or 0.
FirstNotASource(items) ==
    IF \E i \in DOMAIN items : items[i].value \notin Sources
    THEN CHOOSE i \in DOMAIN items :
            /\ items[i].value \notin Sources
            /\ \A j \in 1..(i - 1) : items[j].value \in Sources
    ELSE 0

\* C22: register_source(name, source) fails with a TypeError exactly when the
\* source is not a data source (a BaseSource), and then registers nothing: an
\* earlier registration under the name is kept, also when the constructor is
\* registering its initial sources. With a data source it replaces the
\* registration under the name, and every later load(name) fetches from the
\* source registered last, once, and from no other.
C22_RegisterSourceTypeChecked ==
    [][/\ last'.op = "register_source"
            => /\ (last'.result.kind = "raise") <=> (last'.source \notin Sources)
               /\ last'.result.kind = "raise"
                     => /\ last'.result.type = "TypeError"
                        /\ sources' = sources
               /\ last'.result.kind = "return"
                     => /\ DictGet(sources', last'.name) = last'.source
                        /\ SameElsewhere(sources, sources', last'.name)
       /\ last'.op = "DataTreatment"
            => LET items == IF last'.initial = PyNone THEN <<>> ELSE last'.initial.items
                   bad == FirstNotASource(items)
               IN /\ (last'.result.kind = "raise") <=> (bad # 0)
                  /\ bad # 0
                        => /\ last'.result.type = "TypeError"
                           /\ items[bad].key \notin DictKeys(last'.registered)
                           /\ sources' = sources
                  /\ bad = 0
                        => /\ DictKeySeq(sources') = [i \in DOMAIN items |-> items[i].key]
                           /\ \A i \in DOMAIN items :
                                 DictGet(sources', items[i].key) = items[i].value
       /\ (last'.op = "load" /\ last'.name \in DictKeys(sources'))
            => Fetches(last'.events) = {1}
               /\ last'.events[1]
                    = FetchEvent(DictGet(sources', last'.name), last'.fetch_kwargs)
      ]_vars

\* A register_source that failed on an object that is not a data source, under a
\* name whose earlier registration is still there.
C22_Witness ==
    /\ last.op = "register_source"
    /\ last.name = "a"
    /\ last.source = NotASource
    /\ last.result.kind = "raise"
    /\ last.result.type = "TypeError"
    /\ DictGet(sources, "a") = [source |-> "s1", fetch |-> "return"]
    /\ available_sources(sources) = <<"b", "a">>

\* C30: transformer chains are keyed by source name and changed by
\* add_transformer alone. register_source, first registration or overwrite,
\* leaves every chain as it was; add_transformer under a name with no registered
\* source is accepted and appends to that name's chain, which load applies once
\* a source is registered under the name; no operation removes or reorders a
\* transformer.
C30_ChainsChangedByAddTransformerOnly ==
    [][/\ last'.op # "add_transformer" => transformers' = transformers
       /\ last'.op = "add_transformer"
            => /\ last'.result.kind = "return"
               /\ \A n \in DOMAIN transformers :
                     /\ n \in DOMAIN transformers'
                     /\ Len(transformers'[n]) >= Len(transformers[n])
                     /\ SubSeq(transformers'[n], 1, Len(transformers[n])) = transformers[n]
               /\ Len(Chain(transformers', last'.name))
                    = Len(Chain(transformers, last'.name)) + 1
               /\ \A n \in DOMAIN transformers' :
                     n # last'.name
                         => n \in DOMAIN transformers /\ transformers'[n] = transformers[n]
       /\ (last'.op = "load" /\ last'.apply_transformers /\ last'.result.kind = "return")
            => last'.result.value.applied
                 = [i \in DOMAIN Chain(transformers, last'.name) |->
                       Chain(transformers, last'.name)[i].transformer]
      ]_vars

\* A register_source under a name that has a chain, which is still there
\* afterwards, while the name b has a chain and no source.
C30_Witness ==
    /\ last.op = "register_source"
    /\ last.name = "a"
    /\ last.source = [source |-> "s1", fetch |-> "return"]
    /\ last.result.kind = "return"
    /\ DictGet(sources, "a") = last.source
    /\ transformers = [n \in {"a", "b"} |-> <<[transformer |-> "t1", call |-> "return"]>>]
    /\ ~Registered("b")

-----------------------------------------------------------------------------
(* Regeneration of a metric's implementation file, _materialize_metric and    *)
(* _inject_user_block of src/cap/scaffolding/cli.py.                          *)
(*                                                                            *)
(* A text is a sequence of lines; a line is its content and its terminator.   *)
(* The contents that matter to USER_BLOCK_PATTERN are the two marker lines;   *)
(* the other lines are opaque.                                                *)

MaxRegionLines == 3    \* lines a user writes between the markers

LF == "\n"
CRLF == "\r\n"
Line(text, eol) == [text |-> text, eol |-> eol]

USER_BLOCK_PLACEHOLDER == "__CAP_USER_CODE_BLOCK__"
USER_BLOCK_START == "        # --- CAP USER CODE START ---"
USER_BLOCK_END == "        # --- CAP USER CODE END ---"

\* The template _generate_python_code returns for the metric: the lines up to
\* the placeholder, the placeholder on a line of its own, the lines after it.
TemplateHead == <<Line("    try:", LF)>>
TemplateTail == <<Line("", LF), Line("        return result", LF)>>
TemplateCode == TemplateHead \o <<Line(USER_BLOCK_PLACEHOLDER, LF)>> \o TemplateTail

\* _build_default_user_block(body): the markers around the generated body, with
\* no newline after the end marker.
DefaultBody == <<Line("        result = {}", LF)>>
DefaultBlock ==
    <<Line(USER_BLOCK_START, LF)>> \o DefaultBody \o <<Line(USER_BLOCK_END, "")>>

\* What a user may write on a line between the markers: code, saved with either
\* line terminator, or a copy of the end marker line.
UserLines ==
    {Line("        result = 1", LF), Line("        result = 2", LF),
     Line("        result = 1", CRLF), Line(USER_BLOCK_END, LF)}
Regions == UNION {[1..n -> UserLines] : n \in 0..MaxRegionLines}

\* Path.read_text(): text mode with universal newlines, every terminator read
\* as "\n".
read_text(bytes) ==
    [i \in DOMAIN bytes |->
        Line(bytes[i].text, IF bytes[i].eol = "" THEN "" ELSE LF)]

\* fh.write(python_code) on a file opened with 'w': "\n" is written as the
\* platform's line separator, "\n".
write_text(text) == text

\* USER_BLOCK_PATTERN.search(existing): the first start-marker line, lazily up
\* to the first later line that begins with the end marker; the match stops
\* after the marker. <<>> when there is no match.
Search(existing) ==
    LET starts == {i \in DOMAIN existing :
                      existing[i].text = USER_BLOCK_START /\ existing[i].eol = LF}
        first == CHOOSE i \in starts : \A k \in starts : i <= k
        ends == {j \in DOMAIN existing : j > first /\ existing[j].text = USER_BLOCK_END}
        last_line == CHOOSE j \in ends : \A k \in ends : j <= k
    IN IF starts = {} \/ ends = {}
       THEN <<>>
       ELSE SubSeq(existing, first, last_line - 1) \o <<Line(USER_BLOCK_END, "")>>

\* block += "\n" unless block.endswith("\n")
EndWithNewline(block) ==
    IF block[Len(block)].eol = ""
    THEN [block EXCEPT ![Len(block)].eol = LF]
    ELSE block

\* template_code.replace(USER_BLOCK_PLACEHOLDER, block): the block, and then
\* what is left of the placeholder's line, its terminator.
Replace(template_code, block) ==
    LET at == CHOOSE i \in DOMAIN template_code :
                 template_code[i].text = USER_BLOCK_PLACEHOLDER
    IN SubSeq(template_code, 1, at - 1)
         \o block \o <<Line("", template_code[at].eol)>>
         \o SubSeq(template_code, at + 1, Len(template_code))

\* _inject_user_block(template_code=..., target_path=..., default_block=...,
\* preserve_user_code=...)
inject_user_block(template_code, target, default_block, preserve_user_code) ==
    IF \A i \in DOMAIN template_code : template_code[i].text # USER_BLOCK_PLACEHOLDER
    THEN template_code
    ELSE LET preserved_block ==
                 IF preserve_user_code /\ target.exists
                 THEN Search(read_text(target.text))
                 ELSE <<>>
             block == IF preserved_block # <<>> THEN preserved_block ELSE default_block
         IN Replace(template_code, EndWithNewline(block))

\* The file the generator writes around the lines `region`.
FileAround(region) ==
    TemplateHead
        \o <<Line(USER_BLOCK_START, LF)>> \o region \o <<Line(USER_BLOCK_END, LF)>>
        \o <<Line("", LF)>> \o TemplateTail

\* No implementation file has been generated and no engine created yet.
InitIo ==
    /\ pc = "ready"
    /\ root_importable = FALSE
    /\ yaml_files = <<>>
    /\ py_files = <<>>
    /\ metrics = <<>>
    /\ functions = EmptyDict
    /\ log = <<>>
    /\ last = NoOp
    /\ NoAccessor
    /\ NoIo
    /\ NoTreatment

\* cap generate <metric_id> [--no-preserve-user-code]: the implementation file
\* is written anew. `region` records the lines the file is meant to hold
\* between its markers: the user's when they are preserved, the default body's
\* otherwise.
Generate ==
    /\ \E preserve_user_code \in BOOLEAN :
          /\ target_file' =
                [exists |-> TRUE,
                 text |-> write_text(inject_user_block(TemplateCode, target_file,
                                                       DefaultBlock, preserve_user_code)),
                 region |-> IF preserve_user_code /\ target_file.exists
                            THEN target_file.region
                            ELSE DefaultBody]
          /\ last' = [op |-> "generate", preserve_user_code |-> preserve_user_code,
                      existed |-> target_file.exists]
    /\ UNCHANGED connections
    /\ UNCHANGED treatment_vars
    /\ UNCHANGED accessor_vars
    /\ UNCHANGED <<pc, root_importable, yaml_files, py_files, metrics, functions, log>>

\* The user edits the generated file between its markers.
EditUserCode ==
    /\ target_file.exists
    /\ \E region \in Regions :
          /\ target_file' = [exists |-> TRUE, text |-> FileAround(region),
                             region |-> region]
          /\ last' = [op |-> "edit"]
    /\ UNCHANGED connections
    /\ UNCHANGED treatment_vars
    /\ UNCHANGED accessor_vars
    /\ UNCHANGED <<pc, root_importable, yaml_files, py_files, metrics, functions, log>>

NextScaffold == Generate \/ EditUserCode

SpecScaffold == InitIo /\ [][NextScaffold]_vars

\* C23: regenerating the implementation file with user-code preservation on
\* keeps the region between the CAP USER CODE markers byte-for-byte, for any
\* edit made inside the region and across any number of re-runs, and regenerating
\* an unedited file reproduces it; only without preservation is the region
\* replaced by the default body.
C23_UserRegionPreserved ==
    target_file.exists => target_file.text = FileAround(target_file.region)

-----------------------------------------------------------------------------
(* SQLAlchemySource.fetch, src/cap/data/sources.py.                           *)
(*                                                                            *)
(* `connections` holds one entry for every engine fetch has created: whether   *)
(* the engine is disposed, and the state of the connection taken from it.      *)

MaxFetches == 3    \* engines created in one behaviour

\* What the environment does to one call of fetch.
Backends == {"no_sqlalchemy", "bad_url", "unreachable", "bad_query", "ok"}

SqlParams == {PyNone, EmptyDict, [k \in {"limit"} |-> 1], [k \in {"limit"} |-> 2]}
SqlSources == {[default_params |-> d] : d \in {PyNone, [k \in {"limit"} |-> 1]}}

\* dict(self.default_params or {}), then updated with params when params is
\* truthy
EffectiveParams(source, params) ==
    LET defaults == IF source.default_params = PyNone
                    THEN EmptyDict
                    ELSE source.default_params
    IN IF params = PyNone \/ params = EmptyDict
       THEN defaults
       ELSE [k \in DOMAIN defaults \cup DOMAIN params |->
                IF k \in DOMAIN params THEN params[k] ELSE defaults[k]]

\* sa.create_engine(...): a live engine with no connection taken from it
CreateEngine(conns) == Append(conns, [engine |-> "live", connection |-> "none"])
\* engine.connect(): a connection is checked out of the newest engine
Connect(conns) == [conns EXCEPT ![Len(conns)].connection = "open"]
\* leaving the with block: conn.close()
CloseConnection(conns) == [conns EXCEPT ![Len(conns)].connection = "closed"]
\* engine.dispose(): the engine's pool is closed; a connection still checked
\* out stays as it is
Dispose(conns) == [conns EXCEPT ![Len(conns)].engine = "disposed"]

\* A variant of fetch whose dispose follows the with block, not in a finally.
sql_fetch_without_finally(conns, source, params, backend) ==
    LET effective_params == EffectiveParams(source, params)
        engine == CreateEngine(conns)
    IN CASE backend = "no_sqlalchemy" ->
              [result |-> Raise("ImportError", "SQLAlchemy is required"),
               connections |-> conns]
         [] backend = "bad_url" ->
              [result |-> Raise("ArgumentError", "create_engine"),
               connections |-> conns]
         [] backend = "unreachable" ->
              [result |-> Raise("OperationalError", "connect"),
               connections |-> engine]
         [] backend = "bad_query" ->
              [result |-> Raise("ProgrammingError", "read_sql_query"),
               connections |-> CloseConnection(Connect(engine))]
         [] OTHER ->
              [result |-> Return([query_params |-> effective_params]),
               connections |-> Dispose(CloseConnection(Connect(engine)))]

\* SQLAlchemySource.fetch(params=...): the import, the engine, then the
\* connection and the query inside `with`, inside try/finally: dispose.
sql_fetch(conns, source, params, backend) ==
    LET effective_params == EffectiveParams(source, params)
        engine == CreateEngine(conns)
    IN CASE backend = "no_sqlalchemy" ->
              [result |-> Raise("ImportError", "SQLAlchemy is required"),
               connections |-> conns]
         [] backend = "bad_url" ->
              [result |-> Raise("ArgumentError", "create_engine"),
               connections |-> conns]
         [] backend = "unreachable" ->
              [result |-> Raise("OperationalError", "connect"),
               connections |-> Dispose(engine)]
         [] backend = "bad_query" ->
              [result |-> Raise("ProgrammingError", "read_sql_query"),
               connections |-> Dispose(CloseConnection(Connect(engine)))]
         [] OTHER ->
              [result |-> Return([query_params |-> effective_params]),
               connections |-> Dispose(CloseConnection(Connect(engine)))]

\* source.fetch(params=params) on a SQLAlchemySource
SqlFetch ==
    /\ Len(connections) < MaxFetches
    /\ \E source \in SqlSources, params \in SqlParams, backend \in Backends :
          LET after == sql_fetch(connections, source, params, backend)
          IN /\ connections' = after.connections
             /\ last' = [op |-> "fetch", source |-> source, params |-> params,
                         backend |-> backend, result |-> after.result]
    /\ UNCHANGED target_file
    /\ UNCHANGED treatment_vars
    /\ UNCHANGED accessor_vars
    /\ UNCHANGED <<pc, root_importable, yaml_files, py_files, metrics, functions, log>>

NextSources == SqlFetch

SpecSources == InitIo /\ [][NextSources]_vars

BackendError ==
    [no_sqlalchemy |-> "ImportError", bad_url |-> "ArgumentError",
     unreachable |-> "OperationalError", bad_query |-> "ProgrammingError"]

\* C24: after any sequence of fetch calls, whether the query succeeded, the
\* connection attempt failed or the query raised, every engine fetch created is
\* disposed and no connection it opened is open; a failing call raises the
\* backend's error and a successful one returns the rows.
C24_FetchReleasesConnection ==
    /\ \A i \in DOMAIN connections :
          /\ connections[i].engine = "disposed"
          /\ connections[i].connection # "open"
    /\ last.op = "fetch" =>
          IF last.backend = "ok"
          THEN last.result = Return([query_params |->
                                        EffectiveParams(last.source, last.params)])
          ELSE /\ last.result.kind = "raise"
               /\ last.result.type = BackendError[last.backend]

\* A query raised after an earlier call's connection attempt had failed.
C24_Witness ==
    /\ last.op = "fetch"
    /\ last.backend = "bad_query"
    /\ Len(connections) >= 2
    /\ connections[1].connection = "none"
    /\ connections[Len(connections)].connection = "closed"

-----------------------------------------------------------------------------
(* The try/except every shipped and generated metric implementation puts       *)
(* around its body.                                                           *)

\* The implementations: the two generators' templates and the shipped metrics.
Implementations ==
    {"cap_generated", "cap_demo_simple_calculator",
     "hub_generated", "hub_demo_simple_calculator", "hub_example_financial_analysis"}

\* The except clauses of an implementation, in source order.
Handlers(implementation) ==
    IF implementation \in {"cap_generated", "cap_demo_simple_calculator"}
    THEN <<[catches |-> "ValueError", action |-> "raise"],
           [catches |-> "Exception", action |-> "wrap"]>>
    ELSE <<[catches |-> "Exception", action |-> "wrap"]>>

\* What the body between try and except does.
Bodies ==
    {Return([result |-> 1]),
     Raise("ValueError", "input_data is required"),
     Raise("ZeroDivisionError", "division by zero"),
     Raise("TypeError", "unsupported operand")}

\* isinstance(exc, class) for the exception classes above
Catches(handler, exc) == handler.catches = "Exception" \/ handler.catches = exc.type

\* The implementation called with arguments on which its body does `body`: the
\* first clause that catches the exception logs it, and re-raises it or raises
\* RuntimeError(f"... failed: {exc}") from it.
run_implementation(implementation, body) ==
    IF body.kind = "return"
    THEN [result |-> body, logged |-> <<"info", "info">>]
    ELSE LET handlers == Handlers(implementation)
             first == CHOOSE i \in DOMAIN handlers :
                         /\ Catches(handlers[i], body)
                         /\ \A k \in 1..(i - 1) : ~Catches(handlers[k], body)
         IN [result |-> IF handlers[first].action = "raise"
                        THEN body
                        ELSE [kind |-> "raise", type |-> "RuntimeError",
                              msg |-> "Metric calculation failed", cause |-> body],
             logged |-> <<"info", "error">>]

\* One of the implementations is called.
CallImplementation ==
    /\ \E implementation \in Implementations, body \in Bodies :
          LET after == run_implementation(implementation, body)
          IN last' = [op |-> "call_implementation", implementation |-> implementation,
                      body |-> body, result |-> after.result, logged |-> after.logged]
    /\ UNCHANGED io_vars
    /\ UNCHANGED treatment_vars
    /\ UNCHANGED accessor_vars
    /\ UNCHANGED <<pc, root_importable, yaml_files, py_files, metrics, functions, log>>

NextImplementations == Generate \/ EditUserCode \/ CallImplementation

SpecImplementations == InitIo /\ [][NextImplementations]_vars

\* C25: in every shipped or generated implementation a ValueError raised in the
\* body is logged and reaches the caller unchanged, and any other exception is
\* logged and re-raised as a RuntimeError carrying the original message.
C25_ErrorKindsDistinguished ==
    (last.op = "call_implementation" /\ last.body.kind = "raise") =>
        /\ last.logged[Len(last.logged)] = "error"
        /\ IF last.body.type = "ValueError"
           THEN last.result = last.body
           ELSE /\ last.result.type = "RuntimeError"
                /\ last.result.cause.msg = last.body.msg

-----------------------------------------------------------------------------
(* Further properties of the result classifier.                               *)

\* C26: a polars table classified with json format has the table shape
\* "dataframe" and is encoded as the row records of its pandas conversion.
C26_PolarsTableIsDataframe ==
    (Classified /\ last.value.kind = "PolarsDataFrame" /\ last.output_format = "json")
        => /\ last.result.kind = "return"
           /\ ShapeTag = "dataframe"
           /\ Encoded = to_dict_records(to_pandas(last.value))

\* The kinds of raw table and chart objects.
RawKinds == {"DataFrame", "PolarsDataFrame", "Figure", "FigureWidget", "Bar"}

\* An encoded value is, or holds in a mapping at some depth, a raw table or chart.
RECURSIVE ContainsRaw(_)
ContainsRaw(value) ==
    \/ value.kind \in RawKinds
    \/ /\ value.kind = "dict"
       /\ \E k \in DOMAIN value.items : ContainsRaw(value.items[k])

\* C29: the json encoding holds no raw table and no raw chart, at top level, as a
\* mapping entry or inside a nested mapping, and a value that is encoded as a
\* chart at top level is encoded as a chart when it is a mapping entry.
C29_JsonEncodingTransportClean ==
    (Classified /\ last.output_format = "json")
        => /\ last.result.kind = "return"
           /\ ~ContainsRaw(Encoded)
           /\ IsMapping(last.value) =>
                 \A k \in DOMAIN last.value.items :
                     LET value == last.value.items[k] IN
                     process_result(value, "json") = Return(<<"plotly", to_plotly_json(value)>>)
                         => Encoded.items[k] = to_plotly_json(value)

-----------------------------------------------------------------------------
(* Further properties of discovery and of the registry accessor.              *)

\* The positions of the implementation files with a private or dunder name.
Private == {k \in DOMAIN py_files : StartsWith(py_files[k].name, <<"_">>)}

\* C27: a file with a private (leading-underscore) or dunder name is never
\* imported and contributes no binding, and the tagged callables of every other
\* file that imports are bound.
C27_PrivateFilesNotImported ==
    /\ \A metric_id \in DOMAIN functions : functions[metric_id].module \notin Private
    /\ \A k \in Private : ~Logged("error", "Failed to import", k)
    /\ \A metric_id \in Ids :
          Tagging(metric_id) \ Private # {} => metric_id \in DOMAIN functions

\* The object i holds every configuration and binding of the discovery root.
Complete(i) ==
    /\ i \in DOMAIN instances
    /\ instances[i].loaded = "ready"
    /\ instances[i].metrics = Construct(root_importable, yaml_files, py_files).metrics
    /\ instances[i].functions = Construct(root_importable, yaml_files, py_files).functions

\* C28: under any interleaving of concurrent get_registry() calls, the global
\* is bound only to an object whose constructor has returned, and every caller
\* that has returned obtained such an object: one that holds all configurations
\* and bindings.
C28_PublishedAfterDiscovery ==
    /\ registry_ref # NoRegistry => Complete(registry_ref)
    /\ \A t \in Returned : Complete(threads[t].ret)

\* One caller constructed the registry of a root with a binding, and another
\* returned it without constructing.
C28_Witness ==
    \E t, u \in Returned :
        /\ threads[t].obj # NoRegistry
        /\ threads[u].obj = NoRegistry
        /\ threads[u].ret = threads[t].obj
        /\ DOMAIN instances[threads[u].ret].functions # {}

====
